---------------------------- MODULE Spec2Model ----------------------------
(***************************************************************************)
(* A model of the difficulty / performance calculation of                  *)
(* mamestagram-pp-rs:                                                      *)
(*   - src/src/fruits/pp.rs : the FruitsPP builder (setters, accuracy(),   *)
(*     assert_hitresults(), calculate()) and FruitsPPInner::calculate;     *)
(*   - src/src/osu/mod.rs   : stars(), calculate_star_rating(),            *)
(*     calculate_skills(), stacking() and old_stacking().                  *)
(*                                                                         *)
(* Numbers.  usize counts are naturals.  f64 values that the code derives  *)
(* by rational arithmetic are kept exactly, as integers in a stated unit;  *)
(* where the rounding of an f64 operation decides a result (the product    *)
(* rounded by accuracy()), the rounding is computed.  A square root is     *)
(* held by its radicand.                                                   *)
(* A value the code obtains through a strictly increasing irrational map   *)
(* (powf(0.8), powf(5.5), the 1.1-norm and cube root of the star rating)   *)
(* is carried by the exact argument of that map, so that every comparison  *)
(* the code or a claim makes on it is decided exactly.                     *)
(***************************************************************************)
EXTENDS Integers, Sequences, FiniteSets, TLC

(***************************************************************************)
(* Bounds of the model.                                                    *)
(***************************************************************************)
MaxChartFruits   == 2   \* fruits of a chart: 0..MaxChartFruits
MaxChartDroplets == 1   \* droplets of a chart
MaxChartTiny     == 2   \* tiny droplets of a chart
MaxCount         == 1   \* a count handed to a setter: 0..MaxCount
MaxMisses        == 1   \* misses handed to misses()
MaxCombo         == 2   \* combo handed to combo()
AccSteps         == 4   \* accuracy() is called with 100 * k / AccSteps percent
LargeTiny        == 50  \* tiny droplets of the large charts

(***************************************************************************)
(* Option<T>: None is the empty sequence, Some(x) the one-element one.     *)
(***************************************************************************)
None == << >>
Some(x) == << x >>
OptionOf(S) == {None} \cup {Some(x) : x \in S}

\* Option::unwrap_or
unwrap_or(o, d) == IF o = None THEN d ELSE o[1]

\* usize::saturating_sub
saturating_sub(a, b) == IF a >= b THEN a - b ELSE 0

Min(a, b) == IF a <= b THEN a ELSE b
Max(a, b) == IF a >= b THEN a ELSE b
Abs(a) == IF a >= 0 THEN a ELSE -a

\* f64::round of the non-negative rational n / d, cast to usize: half away from zero
round(n, d) == (2 * n + d) \div (2 * d)

\* 2^k
RECURSIVE pow2(_)
pow2(k) == IF k = 0 THEN 1 ELSE 2 * pow2(k - 1)

\* 2^k modulo m
RECURSIVE pow2_mod(_, _)
pow2_mod(k, m) == IF k = 0 THEN 1 % m ELSE (2 * pow2_mod(k - 1, m)) % m

\* the binary exponent of the positive rational n / d: the e with
\* 2^e <= n / d < 2^(e + 1)
RECURSIVE exponent(_, _)
exponent(n, d) ==
    IF n >= 2 * d THEN exponent(n, 2 * d) + 1
    ELSE IF n < d THEN exponent(2 * n, d) - 1
    ELSE 0

\* acc /= 100.0 in f64, for a whole acc in 1..100: the quotient is acc / 100
\* rounded to 53 bits; its error, in hundredths of a unit in the last place
\* of the quotient (below zero when the f64 is under acc / 100).  The bits
\* cut off are (acc * 2^(52 - e)) mod 100 hundredths, e the exponent.
quotient_error(acc) ==
    LET cut == (acc * pow2_mod(52 - exponent(acc, 100), 100)) % 100
    IN  IF cut > 50 THEN 100 - cut ELSE 0 - cut

\* (acc / 100.0) * total in f64, for a whole acc in 0..100 and a count total,
\* as far as round() can tell: the rational << numerator, denominator >>.
\* The product differs from acc * total / 100 by less than 1e-9, which
\* changes its rounding only where acc * total / 100 is a whole number and a
\* half, x + 0.5.  That number is an f64; the product of the rounded
\* quotient is rounded to it unless the quotient was rounded down and the
\* exact product lies more than half a gap under it, the gap being the
\* distance from x + 0.5 to the f64 before it.  A product under the half is
\* given as the half less 1 / 200.
acc_times(acc, total) ==
    LET n == acc * total
        x == n \div 100
    IN  IF n % 100 # 50 THEN << n, 100 >>
        ELSE LET e    == exponent(acc, 100)
                 ep   == exponent(2 * x + 1, 2)
                 k    == IF x = 0 THEN ep - e - 2 ELSE ep - e - 1
                 err  == quotient_error(acc)
                 under == /\ err < 0
                          /\ IF k >= 0
                             THEN (0 - err) * total > 100 * pow2(k)
                             ELSE (0 - err) * total * pow2(0 - k) > 100
             IN  IF under THEN << 2 * n - 1, 200 >> ELSE << n, 100 >>


(***************************************************************************)
(* Part I.  src/src/fruits/pp.rs                                           *)
(*                                                                         *)
(* FruitsDifficultyAttributes (a "chart"): the fields the performance      *)
(* calculation reads.  stars is in units of 0.00098 (= 0.0049 / 5) and ar  *)
(* in tenths.  As in the tests' attributes(), max_combo is n_fruits +      *)
(* n_droplets.                                                             *)
(***************************************************************************)
ArValues == {90}

ChartsWith(Fs, Ds, Ts, Ss, As) ==
    { [n_fruits |-> f, n_droplets |-> d, n_tiny_droplets |-> t,
       max_combo |-> f + d, stars |-> s, ar |-> a] :
        f \in Fs, d \in Ds, t \in Ts, s \in Ss, a \in As }

Charts == ChartsWith(0..MaxChartFruits, 0..MaxChartDroplets, 0..MaxChartTiny,
                     {0}, ArValues)

\* Charts of the size the tests use relative to the one percentage point they
\* allow: max_combo + n_tiny_droplets around 50
LargeCharts == ChartsWith(0..MaxChartFruits, {0}, {LargeTiny}, {0}, ArValues)

\* Charts without tiny droplets
ComboCharts == ChartsWith(0..MaxChartFruits, 0..MaxChartDroplets, {0}, {0}, ArValues)

\* Attributes a caller holds from an earlier calculation on another map-mod
\* combination: those of the map, with one more fruit.
OtherChart(c) == [c EXCEPT !.n_fruits = c.n_fruits + 1, !.max_combo = c.max_combo + 1]

ModsValues   == {0, 8}
\* a percentage whose hundredth is not a binary fraction: 29.0 / 100.0 is below
\* 0.29, and its product with 50 is below 14.5
InexactAcc   == {29}
AccValues    == { (100 * k) \div AccSteps : k \in 0..AccSteps } \cup InexactAcc
PassedValues == {1}

\* Mods::hd, Mods::fl, Mods::nf: the bits 8, 1024 and 1 of the mods value
hd(m) == (m \div 8) % 2 = 1
fl(m) == (m \div 1024) % 2 = 1
nf(m) == m % 2 = 1

VARIABLES
    \* the FruitsPP builder
    map,                    \* the beatmap, given by the attributes stars() computes for it
    attributes,             \* Option<FruitsDifficultyAttributes>
    mods,                   \* u32
    combo,                  \* Option<usize>
    n_fruits,               \* Option<usize>
    n_droplets,             \* Option<usize>
    n_tiny_droplets,        \* Option<usize>
    n_tiny_droplet_misses,  \* Option<usize>
    n_misses,               \* usize
    passed_objects,         \* Option<usize>
    pp_pc,                  \* "build" until calculate() has consumed the builder, then "done"
    inner,                  \* Option<FruitsPPInner>: what assert_hitresults() returned
    perf,                   \* Option<FruitsPerformanceAttributes>: what calculate() returned
    \* history of the chain of calls
    stars_calls,            \* how often stars() ran
    acc_called,             \* accuracy() has been called
    supplied_first,         \* attributes() supplied attributes before the first accuracy()
    lazy,                   \* Option: the attributes stars() computed inside accuracy()
    resupplied,             \* Option: the attributes attributes() supplied last, after accuracy()
    last_acc,               \* Option: arguments of the accuracy() call just made
    \* one run of osu::stars
    osu_map,                \* the Beatmap: hit_objects, version, ar, od, hp, stack_leniency
    osu_mods,               \* u32
    osu_passed_objects,     \* Option<usize>
    pc,                     \* where the run is
    hit_objects,            \* Vec<OsuObject>, the built objects
    params_max_combo,       \* params.max_combo
    stack_threshold,        \* in units of 1 / 10000 ms
    skills,                 \* Skills: aim, aim_no_sliders, speed, flashlight
    obj_idx,                \* index of the next object the iterator yields (from 0)
    curr_section_end,       \* in thirds of a ms
    attrs,                  \* Option: the attributes calculate_skills returned
    ratings,                \* Option: aim, aim without sliders, speed, flashlight rating
    osu_attributes          \* Option<OsuDifficultyAttributes>: what stars() returned

pp_vars == << map, attributes, mods, combo, n_fruits, n_droplets, n_tiny_droplets,
              n_tiny_droplet_misses, n_misses, passed_objects, pp_pc, inner, perf,
              stars_calls, acc_called, supplied_first, lazy, resupplied, last_acc >>

osu_vars == << osu_map, osu_mods, osu_passed_objects, pc, hit_objects,
               params_max_combo,
               stack_threshold, skills, obj_idx, curr_section_end, attrs, ratings,
               osu_attributes >>

vars == << pp_vars, osu_vars >>

\* no run of osu::stars
OsuIdle ==
    /\ osu_map = None
    /\ osu_mods = 0
    /\ osu_passed_objects = None
    /\ pc = "idle"
    /\ hit_objects = << >>
    /\ params_max_combo = 0
    /\ stack_threshold = 0
    /\ skills = None
    /\ obj_idx = 0
    /\ curr_section_end = 0
    /\ attrs = None
    /\ ratings = None
    /\ osu_attributes = None

\* super::stars(map, mods, passed_objects) of the catch mode
fruits_stars(m, md, passed) == m

\* accuracy() with the bug of reconstructing the droplets even when they were supplied
accuracy_overriding(at, fruits, droplets, tiny, misses, acc) ==
    LET d == saturating_sub(at.n_droplets, misses)
        f == IF fruits # None THEN fruits[1]
             ELSE saturating_sub(saturating_sub(at.max_combo, misses), d)
        t == IF tiny # None THEN tiny[1]
             ELSE saturating_sub(
                    saturating_sub(round(acc_times(acc, at.max_combo + at.n_tiny_droplets)[1],
                          acc_times(acc, at.max_combo + at.n_tiny_droplets)[2]), f),
                    d)
    IN  [n_fruits |-> f, n_droplets |-> d, n_tiny_droplets |-> t,
         n_tiny_droplet_misses |-> saturating_sub(at.n_tiny_droplets, t)]

\* accuracy() with the bug of casting to usize without round(): truncation
accuracy_truncating(at, fruits, droplets, tiny, misses, acc) ==
    LET d == IF droplets # None THEN droplets[1]
             ELSE saturating_sub(at.n_droplets, misses)
        f == IF fruits # None THEN fruits[1]
             ELSE saturating_sub(saturating_sub(at.max_combo, misses), d)
        t == IF tiny # None THEN tiny[1]
             ELSE saturating_sub(
                    saturating_sub(
                        acc_times(acc, at.max_combo + at.n_tiny_droplets)[1]
                            \div acc_times(acc, at.max_combo + at.n_tiny_droplets)[2],
                        f),
                    d)
    IN  [n_fruits |-> f, n_droplets |-> d, n_tiny_droplets |-> t,
         n_tiny_droplet_misses |-> saturating_sub(at.n_tiny_droplets, t)]

\* accuracy() reconstructing every count from the accuracy of the last call
accuracy_last_wins(at, fruits, droplets, tiny, misses, acc) ==
    LET d == saturating_sub(at.n_droplets, misses)
        f == saturating_sub(saturating_sub(at.max_combo, misses), d)
        t == saturating_sub(
                saturating_sub(round(acc_times(acc, at.max_combo + at.n_tiny_droplets)[1],
                          acc_times(acc, at.max_combo + at.n_tiny_droplets)[2]), f),
                d)
    IN  [n_fruits |-> f, n_droplets |-> d, n_tiny_droplets |-> t,
         n_tiny_droplet_misses |-> saturating_sub(at.n_tiny_droplets, t)]

\* FruitsPP::accuracy, lines 156-181: the four counts it stores
accuracy(at, fruits, droplets, tiny, misses, acc) ==
    LET d == IF droplets # None THEN droplets[1]
             ELSE saturating_sub(at.n_droplets, misses)
        f == IF fruits # None THEN fruits[1]
             ELSE saturating_sub(saturating_sub(at.max_combo, misses), d)
        max_tiny_droplets == at.n_tiny_droplets
        product == acc_times(acc, at.max_combo + max_tiny_droplets)
        t == IF tiny # None THEN tiny[1]
             ELSE saturating_sub(
                    saturating_sub(round(product[1], product[2]), f),
                    d)
    IN  [n_fruits |-> f, n_droplets |-> d, n_tiny_droplets |-> t,
         n_tiny_droplet_misses |-> saturating_sub(max_tiny_droplets, t)]

\* FruitsPP::assert_hitresults, lines 187-209: the consistency test
hitresults_correct(at, fruits, droplets, tiny, tiny_misses, misses) ==
    LET correct_combo_hits ==
            /\ fruits # None /\ droplets # None
            /\ fruits[1] + droplets[1] + misses = at.max_combo
        correct_fruits ==
            /\ fruits # None
            /\ fruits[1] >= saturating_sub(at.n_fruits, misses)
        correct_droplets ==
            /\ droplets # None
            /\ droplets[1] >= saturating_sub(at.n_droplets, misses)
        correct_tinies ==
            /\ tiny # None /\ tiny_misses # None
            /\ tiny[1] + tiny_misses[1] = at.n_tiny_droplets
    IN  correct_combo_hits /\ correct_fruits /\ correct_droplets /\ correct_tinies

\* the split with the bug of filling the fruits before the droplets
missing_split_fruits_first(at, f, d, misses) ==
    LET missing == saturating_sub(
                     saturating_sub(saturating_sub(at.max_combo, f), d), misses)
        missing_droplets ==
            saturating_sub(missing, saturating_sub(at.n_fruits, f))
    IN  [fruits |-> saturating_sub(missing, missing_droplets), droplets |-> missing_droplets]

\* FruitsPP::assert_hitresults, lines 216-226: the split of the missing combo hits
missing_split(at, f, d, misses) ==
    LET missing == saturating_sub(
                     saturating_sub(saturating_sub(at.max_combo, f), d), misses)
        missing_fruits ==
            saturating_sub(missing, saturating_sub(at.n_droplets, d))
    IN  [fruits |-> missing_fruits, droplets |-> saturating_sub(missing, missing_fruits)]

\* FruitsPP::assert_hitresults
assert_hitresults(at, md, cb, fruits, droplets, tiny, tiny_misses, misses) ==
    IF ~hitresults_correct(at, fruits, droplets, tiny, tiny_misses, misses)
    THEN LET f  == unwrap_or(fruits, 0)
             d  == unwrap_or(droplets, 0)
             t  == unwrap_or(tiny, 0)
             tm == unwrap_or(tiny_misses, 0)
             sp == missing_split(at, f, d, misses)
         IN  [attributes |-> at, mods |-> md, combo |-> cb,
              n_fruits |-> f + sp.fruits,
              n_droplets |-> d + sp.droplets,
              n_tiny_droplets |->
                  t + saturating_sub(saturating_sub(at.n_tiny_droplets, t), tm),
              n_tiny_droplet_misses |-> tm,
              n_misses |-> misses]
    ELSE [attributes |-> at, mods |-> md, combo |-> cb,
          n_fruits |-> unwrap_or(fruits, 0),
          n_droplets |-> unwrap_or(droplets, 0),
          n_tiny_droplets |-> unwrap_or(tiny, 0),
          n_tiny_droplet_misses |-> unwrap_or(tiny_misses, 0),
          n_misses |-> misses]

combo_hits(in) == in.n_fruits + in.n_droplets + in.n_misses
successful_hits(in) == in.n_fruits + in.n_droplets + in.n_tiny_droplets
total_hits(in) == successful_hits(in) + in.n_tiny_droplet_misses + in.n_misses

\* FruitsPPInner::acc: the ratio << successful hits, total hits >>, 1 / 1 without hits.
\* successful <= total, so the clamp to [0, 1] changes nothing.
acc_ratio(in) ==
    IF total_hits(in) = 0 THEN << 1, 1 >>
    ELSE << successful_hits(in), total_hits(in) >>

\* the base value with the third power in place of the second
pp_base_cubic(stars) ==
    (Max(stars, 5) - 4) * (Max(stars, 5) - 4) * (Max(stars, 5) - 4)

\* line 284: (5 * max(stars / 0.0049, 1) - 4)^2 / 100000, in units of 1e-5
pp_base(stars) == (Max(stars, 5) - 4) * (Max(stars, 5) - 4)

\* the combo factor with the bug of leaving out min(1.0)
combo_scaling_uncapped(cb, max_combo) ==
    IF cb # None /\ max_combo > 0 THEN << cb[1], max_combo >> ELSE << 1, 1 >>

\* lines 303-307: the factor (combo / max_combo)^0.8 min 1.0 as the ratio
\* << n, d >> it is the 0.8th power of; x^0.8 is increasing and fixes 1, so
\* the min with 1.0 is the min of the ratio with 1; << 1, 1 >> when no factor is applied
combo_scaling(cb, max_combo) ==
    IF cb # None /\ max_combo > 0
    THEN IF cb[1] >= max_combo THEN << 1, 1 >> ELSE << cb[1], max_combo >>
    ELSE << 1, 1 >>

\* lines 293-295: the length bonus.  nan tells the bonus that is NaN: with no
\* hit, (combo_hits > 2500) as u8 as f64 is 0.0 and log10(0.0 / 2500.0) is
\* -inf, and 0.0 * -inf is NaN.  linear is 0.95 + 0.3 * min(hits / 2500, 1)
\* in units of 1 / 25000; log_arg is the hit count whose log10(hits / 2500) * 0.475
\* is added, 0 when nothing is added
len_bonus(hits) ==
    [nan |-> hits = 0,
     linear |-> 23750 + 3 * Min(hits, 2500),
     log_arg |-> IF hits > 2500 THEN hits ELSE 0]

\* lines 310-316: the approach rate factor, in units of 1 / 400 (ar in tenths)
ar_factor(ar) ==
    IF ar > 90
    THEN 400 + 4 * (ar - 90) + (IF ar > 100 THEN 4 * (ar - 100) ELSE 0)
    ELSE IF ar < 80 THEN 400 + (80 - ar) ELSE 400

\* lines 320-326: the hidden bonus, in units of 1 / 2000; 2000 without hidden
hd_bonus(md, ar) ==
    IF hd(md)
    THEN IF ar <= 100 THEN 2100 + 15 * (100 - ar)
         ELSE 2020 + 8 * (110 - Min(ar, 110))
    ELSE 2000

\* FruitsPPInner::calculate: pp is the product of
\*   base (1e-5), len_bonus, 0.97^miss_exp, combo_scaling^0.8, ar_factor,
\*   hd_bonus, (1.35 * len_bonus if fl), acc^5.5 and (0.9 if nf);
\* nan tells the product that is NaN, which it is when len_bonus is
calculate_inner(in) ==
    LET at   == in.attributes
        hits == IF combo_hits(in) = 0 THEN at.max_combo ELSE combo_hits(in)
    IN  [attributes    |-> at,
         nan           |-> len_bonus(hits).nan,
         base          |-> pp_base(at.stars),
         len_bonus     |-> len_bonus(hits),
         miss_exp      |-> in.n_misses,
         combo_scaling |-> combo_scaling(in.combo, at.max_combo),
         ar_factor     |-> ar_factor(at.ar),
         hd_bonus      |-> hd_bonus(in.mods, at.ar),
         fl            |-> fl(in.mods),
         acc           |-> acc_ratio(in),
         nf            |-> nf(in.mods)]

(***************************************************************************)
(* The builder's calls.  Every call but accuracy() forgets last_acc.       *)
(***************************************************************************)
\* no call made yet, nothing computed yet
NoHistory ==
    /\ pp_pc = "build"
    /\ inner = None
    /\ perf = None
    /\ stars_calls = 0
    /\ acc_called = FALSE
    /\ supplied_first = FALSE
    /\ lazy = None
    /\ resupplied = None
    /\ last_acc = None

\* FruitsPP::new
PPInit ==
    /\ map \in ComboCharts
    /\ attributes = None
    /\ mods = 0
    /\ combo = None
    /\ n_fruits = None
    /\ n_droplets = None
    /\ n_tiny_droplets = None
    /\ n_tiny_droplet_misses = None
    /\ n_misses = 0
    /\ passed_objects = None
    /\ NoHistory
    /\ OsuIdle

\* mods and combo of the builders of CountsInit
Settings == { << 0, None >>, << 8, Some(1) >> }

\* The builder after new(), or after new().mods(8).combo(1)
CountsInit ==
    /\ map \in Charts \cup LargeCharts
    /\ attributes = None
    /\ \E st \in Settings : mods = st[1] /\ combo = st[2]
    /\ n_fruits = None
    /\ n_droplets = None
    /\ n_tiny_droplets = None
    /\ n_tiny_droplet_misses = None
    /\ n_misses = 0
    /\ passed_objects = None
    /\ NoHistory
    /\ OsuIdle

\* FruitsPP::attributes
Attributes(p) ==
    /\ pp_pc = "build"
    /\ UNCHANGED osu_vars
    /\ attributes' = IF p # None THEN p ELSE attributes
    /\ supplied_first' = (supplied_first \/ (p # None /\ ~acc_called))
    /\ resupplied' = IF p # None /\ acc_called THEN p ELSE resupplied
    /\ last_acc' = None
    /\ UNCHANGED << map, mods, combo, n_fruits, n_droplets, n_tiny_droplets,
                    n_tiny_droplet_misses, n_misses, passed_objects, pp_pc, inner,
                    perf, stars_calls, acc_called, lazy >>

\* FruitsPP::mods
SetMods(m) ==
    /\ pp_pc = "build"
    /\ UNCHANGED osu_vars
    /\ mods' = m
    /\ last_acc' = None
    /\ UNCHANGED << map, attributes, combo, n_fruits, n_droplets, n_tiny_droplets,
                    n_tiny_droplet_misses, n_misses, passed_objects, pp_pc, inner,
                    perf, stars_calls, acc_called, supplied_first, lazy, resupplied >>

\* FruitsPP::combo
SetCombo(c) ==
    /\ pp_pc = "build"
    /\ UNCHANGED osu_vars
    /\ combo' = Some(c)
    /\ last_acc' = None
    /\ UNCHANGED << map, attributes, mods, n_fruits, n_droplets, n_tiny_droplets,
                    n_tiny_droplet_misses, n_misses, passed_objects, pp_pc, inner,
                    perf, stars_calls, acc_called, supplied_first, lazy, resupplied >>

\* FruitsPP::fruits
SetFruits(n) ==
    /\ pp_pc = "build"
    /\ UNCHANGED osu_vars
    /\ n_fruits' = Some(n)
    /\ last_acc' = None
    /\ UNCHANGED << map, attributes, mods, combo, n_droplets, n_tiny_droplets,
                    n_tiny_droplet_misses, n_misses, passed_objects, pp_pc, inner,
                    perf, stars_calls, acc_called, supplied_first, lazy, resupplied >>

\* FruitsPP::droplets
SetDroplets(n) ==
    /\ pp_pc = "build"
    /\ UNCHANGED osu_vars
    /\ n_droplets' = Some(n)
    /\ last_acc' = None
    /\ UNCHANGED << map, attributes, mods, combo, n_fruits, n_tiny_droplets,
                    n_tiny_droplet_misses, n_misses, passed_objects, pp_pc, inner,
                    perf, stars_calls, acc_called, supplied_first, lazy, resupplied >>

\* FruitsPP::tiny_droplets
SetTinyDroplets(n) ==
    /\ pp_pc = "build"
    /\ UNCHANGED osu_vars
    /\ n_tiny_droplets' = Some(n)
    /\ last_acc' = None
    /\ UNCHANGED << map, attributes, mods, combo, n_fruits, n_droplets,
                    n_tiny_droplet_misses, n_misses, passed_objects, pp_pc, inner,
                    perf, stars_calls, acc_called, supplied_first, lazy, resupplied >>

\* FruitsPP::tiny_droplet_misses
SetTinyDropletMisses(n) ==
    /\ pp_pc = "build"
    /\ UNCHANGED osu_vars
    /\ n_tiny_droplet_misses' = Some(n)
    /\ last_acc' = None
    /\ UNCHANGED << map, attributes, mods, combo, n_fruits, n_droplets,
                    n_tiny_droplets, n_misses, passed_objects, pp_pc, inner,
                    perf, stars_calls, acc_called, supplied_first, lazy, resupplied >>

\* FruitsPP::misses
SetMisses(n) ==
    /\ pp_pc = "build"
    /\ UNCHANGED osu_vars
    /\ n_misses' = n
    /\ last_acc' = None
    /\ UNCHANGED << map, attributes, mods, combo, n_fruits, n_droplets,
                    n_tiny_droplets, n_tiny_droplet_misses, passed_objects, pp_pc,
                    inner, perf, stars_calls, acc_called, supplied_first, lazy, resupplied >>

\* FruitsPP::passed_objects
SetPassedObjects(k) ==
    /\ pp_pc = "build"
    /\ UNCHANGED osu_vars
    /\ passed_objects' = Some(k)
    /\ last_acc' = None
    /\ UNCHANGED << map, attributes, mods, combo, n_fruits, n_droplets,
                    n_tiny_droplets, n_tiny_droplet_misses, n_misses, pp_pc,
                    inner, perf, stars_calls, acc_called, supplied_first, lazy, resupplied >>

\* the bug of computing the attributes whether or not some are held
needs_stars_always(at) == TRUE

\* lines 150-152 and 258-261: stars() runs when no attributes are held
needs_stars(at) == at = None

\* FruitsPP::accuracy
Accuracy(a) ==
    /\ pp_pc = "build"
    /\ UNCHANGED osu_vars
    /\ LET run == needs_stars(attributes)
           at  == IF run THEN fruits_stars(map, mods, passed_objects) ELSE attributes[1]
           r   == accuracy(at, n_fruits, n_droplets, n_tiny_droplets, n_misses, a)
       IN  /\ attributes' = Some(at)
           /\ stars_calls' = IF run THEN stars_calls + 1 ELSE stars_calls
           /\ lazy' = IF run THEN Some(at) ELSE lazy
           /\ n_fruits' = Some(r.n_fruits)
           /\ n_droplets' = Some(r.n_droplets)
           /\ n_tiny_droplets' = Some(r.n_tiny_droplets)
           /\ n_tiny_droplet_misses' = Some(r.n_tiny_droplet_misses)
           /\ last_acc' = Some([acc |-> a, n_fruits |-> n_fruits,
                                n_droplets |-> n_droplets,
                                n_tiny_droplets |-> n_tiny_droplets,
                                n_tiny_droplet_misses |-> n_tiny_droplet_misses])
    /\ acc_called' = TRUE
    /\ UNCHANGED << map, mods, combo, n_misses, passed_objects, pp_pc, inner, perf,
                    supplied_first, resupplied >>

\* FruitsPP::calculate: the builder is consumed; its fields stay as they were
\* when it was called, and attributes is taken
Calculate ==
    /\ pp_pc = "build"
    /\ UNCHANGED osu_vars
    /\ LET run == needs_stars(attributes)
           at  == IF run THEN fruits_stars(map, mods, passed_objects) ELSE attributes[1]
           in  == assert_hitresults(at, mods, combo, n_fruits, n_droplets,
                                    n_tiny_droplets, n_tiny_droplet_misses, n_misses)
       IN  /\ stars_calls' = IF run THEN stars_calls + 1 ELSE stars_calls
           /\ inner' = Some(in)
           /\ perf' = Some(calculate_inner(in))
    /\ attributes' = None
    /\ pp_pc' = "done"
    /\ UNCHANGED << map, mods, combo, n_fruits, n_droplets, n_tiny_droplets,
                    n_tiny_droplet_misses, n_misses, passed_objects, acc_called,
                    supplied_first, lazy, resupplied, last_acc >>

\* Chains of calls from new() that set no judgement count directly
PPNext ==
    \/ \E p \in {None, Some(map), Some(OtherChart(map))} : Attributes(p)
    \/ \E m \in ModsValues : SetMods(m)
    \/ \E c \in 0..MaxCombo : SetCombo(c)
    \/ \E n \in 0..MaxMisses : SetMisses(n)
    \/ \E k \in PassedValues : SetPassedObjects(k)
    \/ \E a \in AccValues : Accuracy(a)
    \/ Calculate

\* Chains of the calls that set or use the judgement counts
CountsNext ==
    \/ \E n \in 0..MaxCount : SetFruits(n)
    \/ \E n \in 0..MaxCount : SetDroplets(n)
    \/ \E n \in 0..MaxCount : SetTinyDroplets(n)
    \/ \E n \in 0..MaxCount : SetTinyDropletMisses(n)
    \/ \E n \in 0..MaxMisses : SetMisses(n)
    \/ \E a \in AccValues : Accuracy(a)
    \/ Calculate

SpecPP == PPInit /\ [][PPNext]_vars

SpecCounts == CountsInit /\ [][CountsNext]_vars


(***************************************************************************)
(* Claims on the builder.                                                  *)
(***************************************************************************)

\* The accuracy, in percent, of counts with numerator num and denominator den
\* differs from a by less than one percentage point (false for den = 0, where
\* the code divides 0.0 by 0.0)
WithinOnePoint(num, den, a) == den > 0 /\ Abs(100 * num - a * den) < den

\* the accuracy() call just made had no count supplied and no miss set
FreshAccuracy ==
    /\ pp_pc = "build"
    /\ last_acc # None
    /\ last_acc[1].n_fruits = None
    /\ last_acc[1].n_droplets = None
    /\ last_acc[1].n_tiny_droplets = None
    /\ n_misses = 0

\* the numerator of the accuracy the tests recompute from the builder's counts
BuilderHits == n_fruits[1] + n_droplets[1] + n_tiny_droplets[1]

\* C1 (as claimed): whatever chart, supplied counts, misses and accuracy, the
\* counts calculate() scores with add up to the chart's totals: tiny droplets
\* plus tiny droplet misses to n_tiny_droplets, and fruits plus droplets plus
\* misses to max_combo.
C1_CountConservation ==
    pp_pc = "done" =>
        LET in == inner[1]
        IN  /\ in.n_tiny_droplets + in.n_tiny_droplet_misses
                  = in.attributes.n_tiny_droplets
            /\ in.n_fruits + in.n_droplets + in.n_misses = in.attributes.max_combo

\* C2 (as claimed): after accuracy(a) with no count supplied and no miss, the
\* accuracy recomputed from the builder's counts is within one percentage point
\* of a, for every a in [0, 100].  (Stated for the charts that have an object;
\* on the empty chart the recomputed accuracy is 0.0 / 0.0.)
C2_RoundTripAnyAccuracy ==
    (FreshAccuracy /\ attributes[1].max_combo + attributes[1].n_tiny_droplets > 0) =>
        WithinOnePoint(BuilderHits,
                       BuilderHits + n_tiny_droplet_misses[1] + n_misses,
                       last_acc[1].acc)

\* a is at least the accuracy of a play that catches every fruit and droplet
\* and no tiny droplet, on a chart of more than 50 objects
ReachableAccuracy(at, a) ==
    /\ at.max_combo + at.n_tiny_droplets > 50
    /\ a * (at.max_combo + at.n_tiny_droplets) >= 100 * at.max_combo

\* C2 (amended): the round trip is within one percentage point when the chart
\* has more than 50 objects (fruits, droplets and tiny droplets) and a is at
\* least 100 * max_combo / (max_combo + n_tiny_droplets), the lowest accuracy
\* a play without misses can have.
C2_RoundTrip ==
    (FreshAccuracy /\ ReachableAccuracy(attributes[1], last_acc[1].acc)) =>
        WithinOnePoint(BuilderHits,
                       BuilderHits + n_tiny_droplet_misses[1] + n_misses,
                       last_acc[1].acc)

\* C2 witness: an accuracy strictly between the lowest reachable one and 100
\* was reconstructed on a large chart, with tiny droplets caught and missed
C2_Witness ==
    /\ FreshAccuracy
    /\ ReachableAccuracy(attributes[1], last_acc[1].acc)
    /\ last_acc[1].acc < 100
    /\ attributes[1].max_combo > 0
    /\ n_tiny_droplets[1] > 0
    /\ n_tiny_droplet_misses[1] > 0

\* C6: the combo scaling factor of calculate() is at most 1, and it is 1 when
\* the combo is at least the chart's max combo, when the max combo is 0 and
\* when no combo was supplied.  (The factor is the 0.8th power of the ratio
\* n / d; it is <= 1 iff n <= d and 1 iff n = d.)
C6_ComboScalingBound ==
    pp_pc = "done" =>
        LET sc == perf[1].combo_scaling
            mc == perf[1].attributes.max_combo
        IN  /\ sc[2] > 0
            /\ sc[1] <= sc[2]
            /\ (combo = None \/ mc = 0 \/ (combo # None /\ combo[1] >= mc))
                   => sc[1] = sc[2]

\* C6 witness: a play scored with a combo above the chart's max combo
C6_Witness ==
    /\ pp_pc = "done"
    /\ combo # None
    /\ perf[1].attributes.max_combo > 0
    /\ combo[1] > perf[1].attributes.max_combo

\* stars() ran at most once, and not at all when attributes were supplied
\* before the first accuracy()
StarsAtMostOnce ==
    /\ stars_calls <= 1
    /\ supplied_first => stars_calls = 0

\* C8 (as claimed): stars() runs at most once, not at all when attributes were
\* supplied before the first accuracy(), and calculate() uses the attributes
\* accuracy() computed.
C8_AttributeReuseAnyChain ==
    /\ StarsAtMostOnce
    /\ (pp_pc = "done" /\ lazy # None) => inner[1].attributes = lazy[1]

\* C8 (amended): as claimed, except that attributes() called after accuracy()
\* replaces the attributes accuracy() computed: calculate() then uses the
\* attributes supplied last.
C8_AttributeReuse ==
    /\ StarsAtMostOnce
    /\ (pp_pc = "done" /\ lazy # None) =>
           inner[1].attributes = (IF resupplied # None THEN resupplied[1] ELSE lazy[1])
    /\ (pp_pc = "done" /\ supplied_first /\ resupplied = None) => stars_calls = 0

\* C8 witness: accuracy() computed the attributes, more calls followed, and
\* calculate() ran
C8_Witness ==
    /\ pp_pc = "done"
    /\ lazy # None
    /\ resupplied = None
    /\ stars_calls = 1
    /\ mods # 0
    /\ passed_objects # None

\* C9: a count supplied before accuracy() has the same value after it.
C9_AccuracyKeepsSupplied ==
    last_acc # None =>
        /\ last_acc[1].n_fruits # None => n_fruits = last_acc[1].n_fruits
        /\ last_acc[1].n_droplets # None => n_droplets = last_acc[1].n_droplets
        /\ last_acc[1].n_tiny_droplets # None
               => n_tiny_droplets = last_acc[1].n_tiny_droplets

\* C9 witness: accuracy() was called with droplets and tiny droplets supplied
\* that differ from the ones it would have reconstructed, and no fruits
C9_Witness ==
    /\ pp_pc = "build"
    /\ last_acc # None
    /\ last_acc[1].n_fruits = None
    /\ last_acc[1].n_droplets # None
    /\ last_acc[1].n_tiny_droplets # None
    /\ accuracy(attributes[1], None, None, None, n_misses, last_acc[1].acc).n_droplets
           # n_droplets[1]
    /\ accuracy(attributes[1], None, None, None, n_misses, last_acc[1].acc).n_tiny_droplets
           # n_tiny_droplets[1]

\* the supplied counts of the consumed builder, an unset one counting as 0
Supplied ==
    [f  |-> unwrap_or(n_fruits, 0), d |-> unwrap_or(n_droplets, 0),
     t  |-> unwrap_or(n_tiny_droplets, 0), tm |-> unwrap_or(n_tiny_droplet_misses, 0)]

UnderSpecified(at) ==
    /\ Supplied.f + Supplied.d + n_misses <= at.max_combo
    /\ Supplied.t + Supplied.tm <= at.n_tiny_droplets

\* C10: for under-specified counts, assert_hitresults() adds the combo
\* shortfall to the droplets up to the chart's droplet count and the rest to
\* the fruits, adds the tiny shortfall to the tiny droplets, both sums then
\* match the chart, and misses, tiny droplet misses, combo and mods are kept.
C10_UnderSpecifiedFill ==
    (pp_pc = "done" /\ UnderSpecified(inner[1].attributes)) =>
        LET in == inner[1]
            at == in.attributes
            shortfall == at.max_combo - Supplied.f - Supplied.d - n_misses
            to_droplets == Min(shortfall, Max(at.n_droplets - Supplied.d, 0))
        IN  /\ in.n_droplets = Supplied.d + to_droplets
            /\ in.n_fruits = Supplied.f + (shortfall - to_droplets)
            /\ in.n_tiny_droplets = at.n_tiny_droplets - Supplied.tm
            /\ in.n_fruits + in.n_droplets + in.n_misses = at.max_combo
            /\ in.n_tiny_droplets + in.n_tiny_droplet_misses = at.n_tiny_droplets
            /\ in.n_misses = n_misses
            /\ in.n_tiny_droplet_misses = Supplied.tm
            /\ in.combo = combo
            /\ in.mods = mods

\* C10 witness: a shortfall that fills the droplets and then the fruits, and
\* a tiny shortfall, with misses, tiny droplet misses, combo and mods set
C10_Witness ==
    /\ pp_pc = "done"
    /\ UnderSpecified(inner[1].attributes)
    /\ inner[1].n_droplets > Supplied.d
    /\ inner[1].n_fruits > Supplied.f
    /\ inner[1].n_tiny_droplets > Supplied.t
    /\ n_misses > 0
    /\ Supplied.tm > 0
    /\ combo # None
    /\ mods # 0


(***************************************************************************)
(* Part II.  src/src/osu/mod.rs                                            *)
(*                                                                         *)
(* Positions are points of a line, times of a map are in ms and times      *)
(* divided by the clock rate in thirds of a ms.  The difficulty settings   *)
(* ar, od, hp and the stack leniency of a map are in tenths.  A rating is  *)
(* DIFFICULTY_MULTIPLIER * sqrt(q) for a whole q and is held as q; a base  *)
(* performance is held as a + b * sqrt(r), in units of 1.25e-6.            *)
(***************************************************************************)
MaxObjects == 3         \* hit objects of a map

SECTION_LEN == 400
STACK_DISTANCE == 3

\* Mods::rx, Mods::hr, Mods::ez: the bits 128, 16 and 2 of the mods value
rx(m) == (m \div 128) % 2 = 1
hr(m) == (m \div 16) % 2 = 1
ez(m) == (m \div 2) % 2 = 1

\* The raw hit objects of a map: the i-th one starts at 300 * (i - 1) ms.  A
\* kind "hold" is one OsuObject::new does not build.
HitObjectsOf(Kinds, Xs, n) ==
    { [i \in 1..n |-> [kind |-> f[i][1], pos |-> f[i][2], start_time |-> 300 * (i - 1)]] :
        f \in [1..n -> Kinds \X Xs] }

\* OsuObject::new: a slider is 10 long and lasts 150 ms, as does a spinner
OsuObject_new(h) ==
    IF h.kind = "hold" THEN None
    ELSE Some([kind |-> h.kind,
               pos |-> h.pos,
               time |-> h.start_time,
               end_pos |-> IF h.kind = "slider" THEN h.pos + 10 ELSE h.pos,
               end_time |-> IF h.kind = "circle" THEN h.start_time ELSE h.start_time + 150,
               stack_height |-> 0])

\* what OsuObject::new adds to params.max_combo: a slider counts head and tail
object_combo(h) ==
    CASE h.kind = "hold"   -> 0
      [] h.kind = "slider" -> 2
      [] OTHER             -> 1

is_circle(o)  == o.kind = "circle"
is_slider(o)  == o.kind = "slider"

\* a test that takes no object for a spinner
is_spinner_never(o) == FALSE

is_spinner(o) == o.kind = "spinner"

\* Pos2::distance
distance(a, b) == Abs(a - b)

\* a span of time in ms, in the unit of the stack threshold, 1 / 10000 ms
in_threshold_units(t) == 10000 * t

\* map.hit_objects.iter().take(take), every object
take_all(raw, take) == raw

\* map.hit_objects.iter().take(take)
take_first(raw, take) == SubSeq(raw, 1, Min(take, Len(raw)))

\* .filter_map(|h| OsuObject::new(h, hr, &mut params)) collected, and the
\* combo params.max_combo has after it
RECURSIVE filter_map_new(_)
filter_map_new(raw) ==
    IF raw = << >> THEN << >>
    ELSE OsuObject_new(Head(raw)) \o filter_map_new(Tail(raw))

RECURSIVE combo_after(_)
combo_after(raw) ==
    IF raw = << >> THEN 0
    ELSE object_combo(Head(raw)) + combo_after(Tail(raw))

(***************************************************************************)
(* stacking and old_stacking.  Indices are the code's, from 0.             *)
(***************************************************************************)
set_stack_height(objs, i, h) == [objs EXCEPT ![i + 1].stack_height = h]

\* a.distance(b) <= STACK_DISTANCE
within_stack_distance_inclusive(a, b) == distance(a, b) <= STACK_DISTANCE

\* a.distance(b) < STACK_DISTANCE
within_stack_distance(a, b) == distance(a, b) < STACK_DISTANCE

\* only the object the walk started from goes down by offset
offset_under_slider_last(objs, n, j, i, offset) ==
    IF within_stack_distance(objs[n + 1].end_pos, objs[i + 1].pos)
    THEN set_stack_height(objs, i, objs[i + 1].stack_height - offset)
    ELSE objs

\* for j in n + 1..=i: the objects under the end of slider n go down by offset
RECURSIVE offset_under_slider(_, _, _, _, _)
offset_under_slider(objs, n, j, i, offset) ==
    IF j > i THEN objs
    ELSE offset_under_slider(
            IF within_stack_distance(objs[n + 1].end_pos, objs[j + 1].pos)
            THEN set_stack_height(objs, j, objs[j + 1].stack_height - offset)
            ELSE objs,
            n, j + 1, i, offset)

\* the backward walk from a circle: n is the index last looked at, base is
\* obj_i_idx, ext is extended_start_idx
RECURSIVE circle_walk(_, _, _, _, _, _)
circle_walk(objs, ext, i, base, n, thr) ==
    IF n = 0 THEN [objs |-> objs, ext |-> ext]
    ELSE LET m == n - 1 IN
         IF is_spinner(objs[m + 1]) THEN circle_walk(objs, ext, i, base, m, thr)
         ELSE IF in_threshold_units(objs[base + 1].time - objs[m + 1].end_time) > thr
              THEN [objs |-> objs, ext |-> ext]
         ELSE LET o1 == IF m < ext THEN set_stack_height(objs, m, 0) ELSE objs
                  e1 == IF m < ext THEN m ELSE ext
              IN  IF /\ is_slider(o1[m + 1])
                     /\ within_stack_distance(o1[m + 1].end_pos, o1[base + 1].pos)
                  THEN [objs |-> offset_under_slider(o1, m, m + 1, i,
                                     o1[base + 1].stack_height
                                         - o1[m + 1].stack_height + 1),
                        ext |-> e1]
                  ELSE IF within_stack_distance(o1[m + 1].pos, o1[base + 1].pos)
                       THEN circle_walk(
                               set_stack_height(o1, m, o1[base + 1].stack_height + 1),
                               e1, i, m, m, thr)
                       ELSE circle_walk(o1, e1, i, base, m, thr)

\* the backward walk from a slider
RECURSIVE slider_walk(_, _, _, _)
slider_walk(objs, base, n, thr) ==
    IF n = 0 THEN objs
    ELSE LET m == n - 1 IN
         IF is_spinner(objs[m + 1]) THEN slider_walk(objs, base, m, thr)
         ELSE IF in_threshold_units(objs[base + 1].time - objs[m + 1].time) > thr THEN objs
         ELSE IF within_stack_distance(objs[m + 1].end_pos, objs[base + 1].pos)
              THEN slider_walk(
                      set_stack_height(objs, m, objs[base + 1].stack_height + 1),
                      m, m, thr)
              ELSE slider_walk(objs, base, m, thr)

\* for i in (1..=extended_end_idx).rev(), from i on
RECURSIVE stacking_from(_, _, _, _)
stacking_from(objs, ext, i, thr) ==
    IF i < 1 THEN objs
    ELSE IF Abs(objs[i + 1].stack_height) > 0 \/ is_spinner(objs[i + 1])
         THEN stacking_from(objs, ext, i - 1, thr)
    ELSE IF is_circle(objs[i + 1])
         THEN LET r == circle_walk(objs, ext, i, i, i, thr)
              IN  stacking_from(r.objs, r.ext, i - 1, thr)
    ELSE IF is_slider(objs[i + 1])
         THEN stacking_from(slider_walk(objs, i, i, thr), ext, i - 1, thr)
    ELSE stacking_from(objs, ext, i - 1, thr)

\* hit_objects.len() - 1 on an empty slice
stacking_panics(objs) == Len(objs) = 0

\* stacking, on a slice that is not empty
stacking(objs, thr) == stacking_from(objs, 0, Len(objs) - 1, thr)

\* for j in i + 1..hit_objects.len(), from j on
RECURSIVE old_stacking_scan(_, _, _, _, _, _, _)
old_stacking_scan(objs, i, j, start_time, end_pos, slider_stack, thr) ==
    IF j >= Len(objs) THEN objs
    ELSE IF in_threshold_units(objs[j + 1].time) - thr > in_threshold_units(start_time)
         THEN objs
    ELSE IF within_stack_distance(objs[j + 1].pos, objs[i + 1].pos)
         THEN old_stacking_scan(
                 set_stack_height(objs, i, objs[i + 1].stack_height + 1),
                 i, j + 1, objs[j + 1].end_time, end_pos, slider_stack, thr)
    ELSE IF within_stack_distance(objs[j + 1].pos, end_pos)
         THEN old_stacking_scan(
                 set_stack_height(objs, j, objs[j + 1].stack_height - (slider_stack + 1)),
                 i, j + 1, objs[j + 1].end_time, end_pos, slider_stack + 1, thr)
    ELSE old_stacking_scan(objs, i, j + 1, start_time, end_pos, slider_stack, thr)

\* the pass skipping every object whose stack height is not 0, sliders too
RECURSIVE old_stacking_from_skipping(_, _, _)
old_stacking_from_skipping(objs, i, thr) ==
    IF i >= Len(objs) THEN objs
    ELSE IF objs[i + 1].stack_height # 0
         THEN old_stacking_from_skipping(objs, i + 1, thr)
    ELSE old_stacking_from_skipping(
            old_stacking_scan(objs, i, i + 1, objs[i + 1].end_time,
                              objs[i + 1].end_pos, 0, thr),
            i + 1, thr)

\* for i in 0..hit_objects.len(), from i on
RECURSIVE old_stacking_from(_, _, _)
old_stacking_from(objs, i, thr) ==
    IF i >= Len(objs) THEN objs
    ELSE IF objs[i + 1].stack_height # 0 /\ ~is_slider(objs[i + 1])
         THEN old_stacking_from(objs, i + 1, thr)
    ELSE old_stacking_from(
            old_stacking_scan(objs, i, i + 1, objs[i + 1].end_time,
                              objs[i + 1].end_pos, 0, thr),
            i + 1, thr)

old_stacking(objs, thr) == old_stacking_from(objs, 0, thr)

\* ScalingFactor::stack_offset: the offset of one unit of stack height is -3
stack_offset(stack_height) == stack_height * (-3)

\* h.pos += stack_offset and the stack height cleared, for every object
apply_stack_offset_clearing(objs) ==
    [i \in 1..Len(objs) |->
        [objs[i] EXCEPT !.pos = objs[i].pos + stack_offset(objs[i].stack_height),
                        !.stack_height = 0]]

\* h.pos += stack_offset, for every object
apply_stack_offset(objs) ==
    [i \in 1..Len(objs) |->
        [objs[i] EXCEPT !.pos = objs[i].pos + stack_offset(objs[i].stack_height)]]


(***************************************************************************)
(* Skills.  A tracker keeps the peaks of the sections closed so far and    *)
(* the peak of the section it is in; the strain of an object is carried by *)
(* the distances it is computed from, and the decay between objects is     *)
(* left out.                                                               *)
(***************************************************************************)
NewSkill == [strain_peaks |-> << >>, curr_section_peak |-> 0]

\* Skills::new: no speed skill with relax, a flashlight skill only with flashlight
Skills_new(md) ==
    [aim            |-> NewSkill,
     aim_no_sliders |-> NewSkill,
     speed          |-> IF rx(md) THEN None ELSE Some(NewSkill),
     flashlight     |-> IF fl(md) THEN Some(NewSkill) ELSE None]

\* Mods::dt, Mods::ht: the bits 64 and 256 of the mods value
dt(m) == (m \div 64) % 2 = 1
ht(m) == (m \div 256) % 2 = 1

\* t / clock_rate, the clock rate being in hundredths (1.5, 1.0 or 0.75), in
\* thirds of the unit of t: 2 * t, 3 * t or 4 * t
by_clock_rate(t, clock_rate) == (t * 300) \div clock_rate

\* a span of time in ms, in the unit of the times divided by the clock rate,
\* a third of a ms
scaled(t) == 3 * t

\* DifficultyObject::new
DifficultyObject_new(curr, prev, clock_rate) ==
    [base        |-> curr,
     delta       |-> by_clock_rate(curr.time - prev.time, clock_rate),
     jump_dist   |-> distance(curr.pos, prev.pos),
     travel_dist |-> distance(prev.end_pos, prev.pos)]

\* the strain an object adds, by skill
strain_of(kind, h) ==
    CASE kind = "aim"            -> h.jump_dist + h.travel_dist
      [] kind = "aim_no_sliders" -> h.jump_dist
      [] kind = "speed"          -> scaled(1200) \div Max(h.delta, scaled(1))
      [] OTHER                   -> h.jump_dist

\* Skill::process
skill_process(s, kind, h) ==
    [s EXCEPT !.curr_section_peak = Max(@, strain_of(kind, h))]

\* Skill::save_current_peak
skill_save_current_peak(s) ==
    [s EXCEPT !.strain_peaks = Append(@, s.curr_section_peak)]

\* Skill::start_new_section_from
skill_start_new_section_from(s) == [s EXCEPT !.curr_section_peak = 0]

\* Skills::process
process(sk, h) ==
    [aim            |-> skill_process(sk.aim, "aim", h),
     aim_no_sliders |-> skill_process(sk.aim_no_sliders, "aim_no_sliders", h),
     speed          |-> IF sk.speed = None THEN None
                        ELSE Some(skill_process(sk.speed[1], "speed", h)),
     flashlight     |-> IF sk.flashlight = None THEN None
                        ELSE Some(skill_process(sk.flashlight[1], "flashlight", h))]

\* Skills::save_current_peak
save_current_peak(sk) ==
    [aim            |-> skill_save_current_peak(sk.aim),
     aim_no_sliders |-> skill_save_current_peak(sk.aim_no_sliders),
     speed          |-> IF sk.speed = None THEN None
                        ELSE Some(skill_save_current_peak(sk.speed[1])),
     flashlight     |-> IF sk.flashlight = None THEN None
                        ELSE Some(skill_save_current_peak(sk.flashlight[1]))]

\* Skills::start_new_section_from
start_new_section_from(sk) ==
    [aim            |-> skill_start_new_section_from(sk.aim),
     aim_no_sliders |-> skill_start_new_section_from(sk.aim_no_sliders),
     speed          |-> IF sk.speed = None THEN None
                        ELSE Some(skill_start_new_section_from(sk.speed[1])),
     flashlight     |-> IF sk.flashlight = None THEN None
                        ELSE Some(skill_start_new_section_from(sk.flashlight[1]))]

\* Skills::save_peak_and_start_new_section
save_peak_and_start_new_section(sk) == start_new_section_from(save_current_peak(sk))

\* the loop, saving a peak at every boundary
RECURSIVE section_loop_saving(_, _, _, _)
section_loop_saving(sk, base_time, section_end, saving) ==
    IF base_time > section_end
    THEN section_loop_saving(save_peak_and_start_new_section(sk),
                             base_time, section_end + scaled(SECTION_LEN), saving)
    ELSE [skills |-> sk, curr_section_end |-> section_end]

\* while base_time > curr_section_end { .. curr_section_end += SECTION_LEN }:
\* the trackers and the section end after it.  saving tells the loop of the
\* second object, which saves no peak, from the loop of the later ones.
RECURSIVE section_loop(_, _, _, _)
section_loop(sk, base_time, section_end, saving) ==
    IF base_time > section_end
    THEN section_loop(IF saving THEN save_peak_and_start_new_section(sk)
                      ELSE start_new_section_from(sk),
                      base_time, section_end + scaled(SECTION_LEN), saving)
    ELSE [skills |-> sk, curr_section_end |-> section_end]

\* (prev.time / clock_rate / SECTION_LEN).ceil() * SECTION_LEN
first_section_end(prev, clock_rate) ==
    ((by_clock_rate(prev.time, clock_rate) + scaled(SECTION_LEN) - 1)
         \div scaled(SECTION_LEN)) * scaled(SECTION_LEN)

\* one object of the scan: the object at index idx against the one before it
scan_object(sk, objs, idx, section_end, clock_rate) ==
    LET h == DifficultyObject_new(objs[idx + 1], objs[idx], clock_rate)
        l == section_loop(sk, by_clock_rate(h.base.time, clock_rate), section_end,
                          idx > 1)
    IN  [skills |-> process(l.skills, h), curr_section_end |-> l.curr_section_end]

\* Skill::difficulty_value: the peaks summed, their weights left out
RECURSIVE difficulty_value(_)
difficulty_value(strain_peaks) ==
    IF strain_peaks = << >> THEN 0
    ELSE Head(strain_peaks) + difficulty_value(Tail(strain_peaks))

\* Skill::difficulty_value(..).sqrt() * DIFFICULTY_MULTIPLIER.  A rating is
\* held exactly, as the whole number q it is the root of:
\* rating = DIFFICULTY_MULTIPLIER * sqrt(q), q = (rating / 0.0675)^2
skill_rating(s) == difficulty_value(s.strain_peaks)

\* mem::take(&mut skill.strain_peaks)
take_strain_peaks(s) == [s EXCEPT !.strain_peaks = << >>]

(***************************************************************************)
(* The map's attributes under the mods.                                    *)
(***************************************************************************)
\* Beatmap::attributes().mods(mods), for mods that do not change the settings:
\* the clock rate, in hundredths, is 1.5 with double time and 0.75 with half
\* time
map_attributes(m, md) ==
    [ar |-> m.ar, od |-> m.od, hp |-> m.hp, cs |-> m.cs,
     clock_rate |-> IF dt(md) THEN 150 ELSE IF ht(md) THEN 75 ELSE 100]

\* crate::difficulty_range, val in hundredths: 500 times its value
difficulty_range(val, max, avg, min) ==
    IF val > 500 THEN avg * 500 + (max - avg) * (val - 500)
    ELSE IF val < 500 THEN avg * 500 - (avg - min) * (500 - val)
    ELSE avg * 500

difficulty_range_ar(ar) == difficulty_range(ar, 450, 1200, 1800)

difficulty_range_od(od) == difficulty_range(od, 20, 50, 80)

\* hit_window = difficulty_range_od(od) / clock_rate, in units of 1 / 1500 ms,
\* and od = (80.0 - hit_window) / 6.0, in units of 1 / 9000 (the settings of
\* a map are in tenths)
od_of(m, md) ==
    LET hit_window == by_clock_rate(difficulty_range_od(10 * map_attributes(m, md).od),
                                    map_attributes(m, md).clock_rate)
    IN  80 * 1500 - hit_window

\* a setting in tenths, in the unit of od_of
in_od_units(v) == 900 * v

\* raw_ar, in hundredths: map.ar * 1.4 capped at 10.0 with hard rock,
\* map.ar * 0.5 with easy
raw_ar(m, md) ==
    IF hr(md) THEN Min(m.ar * 14, 1000)
    ELSE IF ez(md) THEN m.ar * 5
    ELSE m.ar * 10

\* the slope of crate::difficulty_range at val, val in hundredths
difficulty_range_slope(val, max, avg, min) ==
    IF val > 500 THEN max - avg
    ELSE IF val < 500 THEN avg - min
    ELSE 0

\* hundredths of raw_ar per tenth of map.ar: none where min(10.0) cuts
raw_ar_gain(m, md) ==
    IF hr(md) THEN (IF m.ar * 14 >= 1000 THEN 0 ELSE 14)
    ELSE IF ez(md) THEN 5
    ELSE 10

\* map.ar and map.stack_leniency are f32 (they are cast with `as f64`): a
\* setting of v tenths is held as v / 10 rounded to 24 bits, which is
\* (v + f32_error(v) / 2^f32_shift(v)) / 10, the shift being 23 less the
\* binary exponent of v / 10 and the error lying between -5 and 5
f32_shift(v) == IF v = 0 THEN 0 ELSE 23 - exponent(v, 10)

f32_error(v) ==
    LET cut == (v * pow2_mod(f32_shift(v), 10)) % 10
    IN  IF cut > 5 THEN 10 - cut ELSE 0 - cut

\* time_preempt * map.stack_leniency as f64, cut to a whole number of units
\* of 1 / 10000 ms.  With the two settings as f32,
\*   5000 * product = (time_preempt + slope * gain * ea / 2^ka) * (l + el / 2^kl)
\* for time_preempt in units of 1 / 500 ms, the leniency l in tenths, the
\* errors ea and el and the shifts ka and kl of the two f32.  Less the exact
\* 5000 * time_preempt * l and doubled, that is x / 2^k + c / 2^(ka + kl) with
\* k the larger shift; it is cut to a whole number of units, the last term
\* counting only where x / 2^k is whole.  The roundings of the f64
\* operations are far below a unit.
stack_threshold_of(m, md) ==
    LET time_preempt == difficulty_range_ar(raw_ar(m, md))
        slope == difficulty_range_slope(raw_ar(m, md), 450, 1200, 1800)
        l     == m.stack_leniency
        ea    == f32_error(m.ar)
        el    == f32_error(l)
        ka    == f32_shift(m.ar)
        kl    == f32_shift(l)
        k     == Max(ka, kl)
        x     == 2 * time_preempt * el * pow2(k - kl)
                 + 2 * slope * raw_ar_gain(m, md) * ea * l * pow2(k - ka)
        c     == slope * raw_ar_gain(m, md) * ea * el
        cut   == IF x % pow2(k) = 0 /\ c < 0
                 THEN x \div pow2(k) - 1
                 ELSE x \div pow2(k)
    IN  2 * time_preempt * l + cut

\* passed_objects.unwrap_or_else(|| map.hit_objects.len())
take_of(m, passed) == unwrap_or(passed, Len(m.hit_objects))

\* Vec::with_capacity(take) asks for room for take objects whatever the map
\* holds: it panics with 'capacity overflow' when they exceed isize::MAX
\* bytes, and the process aborts when the memory is refused.  Whether a large
\* request is refused is for the machine to decide; LargeTake is a count from
\* which it may be.
LargeTake == 100000000

with_capacity_may_fail(take) == take >= LargeTake

\* map.n_circles, map.n_sliders, map.n_spinners
n_of_kind(m, kind) == Cardinality({i \in 1..Len(m.hit_objects) : m.hit_objects[i].kind = kind})

(***************************************************************************)
(* The star rating.  A star rating is zero (exactly 0.0) or carried by the *)
(* three base performances it is the norm of.  A base performance is the   *)
(* number a + b * sqrt(r), held as << a, b, r >> with whole a, b and r, in *)
(* units of 1.25e-6 (an eighth of 0.00001).                                *)
(***************************************************************************)
\* a + b * sqrt(r), the root taken where r is a square
surd(a, b, r) ==
    IF b = 0 \/ r = 0 THEN << a, 0, 0 >>
    ELSE IF \E x \in 1..r : x * x = r
         THEN << a + b * (CHOOSE x \in 1..r : x * x = r), 0, 0 >>
    ELSE << a, b, r >>

\* (a + b * sqrt(r))^3 = a^3 + 3 a b^2 r + (3 a^2 b + b^3 r) * sqrt(r)
surd_cube(a, b, r) == surd(a * a * a + 3 * a * b * b * r, 3 * a * a * b + b * b * b * r, r)

\* k times a surd
surd_times(k, x) == << k * x[1], k * x[2], x[3] >>

\* the sign (-1, 0 or 1) of b * sqrt(r) - m, for b, r and m above 0: that of
\* b^2 * r - m^2 = b * e - rem^2, with m = k * b + rem, d = r - k^2 and
\* e = d * b - 2 * k * rem, decided without forming a number beyond 2^31
root_cmp(b, r, m) ==
    LET k   == m \div b
        rem == m % b
        d   == r - k * k
        e   == d * b - 2 * k * rem
    IN  IF k > 46340 THEN -1
        ELSE IF d < 0 THEN -1
        ELSE IF d >= 2 * k + 1 THEN 1
        ELSE IF e < 0 THEN -1
        ELSE IF e = 0 THEN (IF rem = 0 THEN 0 ELSE -1)
        ELSE IF e >= b THEN 1
        ELSE IF b * e > rem * rem THEN 1
        ELSE IF b * e < rem * rem THEN -1
        ELSE 0

\* the sign of a + b * sqrt(r) - c, for b >= 0
surd_cmp(x, c) ==
    IF x[2] = 0 \/ x[3] = 0
    THEN (IF x[1] > c THEN 1 ELSE IF x[1] < c THEN -1 ELSE 0)
    ELSE IF x[1] >= c THEN 1
    ELSE root_cmp(x[2], x[3], c - x[1])

\* a + b * sqrt(r) < c
surd_below(x, c) == surd_cmp(x, c) < 0

\* a + b * sqrt(r) > c
surd_above(x, c) == surd_cmp(x, c) > 0

ZeroStars == [zero |-> TRUE, terms |-> << surd(0, 0, 0), surd(0, 0, 0), surd(0, 0, 0) >>]

\* OsuDifficultyAttributes::default
DefaultAttributes ==
    [aim_strain |-> 0, speed_strain |-> 0, flashlight_rating |-> 0,
     slider_factor |-> << 0, 1 >>, ar |-> 0, od |-> 0, hp |-> 0,
     n_circles |-> 0, n_sliders |-> 0, n_spinners |-> 0,
     stars |-> ZeroStars, max_combo |-> 0]

\* base = 5.0 * (rating / 0.0675) - 4.0; base * base * base / 100_000.0
base_performance_unclamped(rating) == surd_times(8, surd_cube(-4, 5, rating))

\* base = 5.0 * (rating / 0.0675).max(1.0) - 4.0; base * base * base / 100_000.0:
\* rating / 0.0675 is sqrt(q) for the rating held as q, and its max with 1.0
\* is sqrt(max(q, 1))
base_performance(rating) == surd_times(8, surd_cube(-4, 5, Max(rating, 1)))

\* the norm (x^1.1 + y^1.1 + z^1.1)^(1 / 1.1) of three base performances is
\* above 0.00001 (8 units): powf(1.1) of a negative number is NaN, which
\* compares false; of numbers that are not negative the norm is at least
\* the largest and, with two of them above 0, above the largest; with all of
\* them at most 0.00001 and at most one above 0 it is not above 0.00001
norm_above_threshold(terms) ==
    /\ \A i \in 1..3 : ~surd_below(terms[i], 0)
    /\ \/ \E i \in 1..3 : surd_above(terms[i], 8)
       \/ \E i \in 1..3 : \E j \in 1..3 :
              /\ i # j
              /\ ~surd_below(terms[i], 8)
              /\ surd_above(terms[j], 0)

\* flashlight_rating * flashlight_rating * 25.0 is 0.0675^2 * 25 * q, that is
\* 91125 * q units, for the rating held as q
calculate_star_rating(aim_rating, speed_rating, flashlight_rating) ==
    LET base_aim_performance == base_performance(aim_rating)
        base_speed_performance == base_performance(speed_rating)
        base_flashlight_performance == surd(91125 * flashlight_rating, 0, 0)
        terms == << base_aim_performance, base_speed_performance,
                    base_flashlight_performance >>
    IN  IF norm_above_threshold(terms)
        THEN [zero |-> FALSE, terms |-> terms]
        ELSE ZeroStars


(***************************************************************************)
(* One run of stars(map, mods, passed_objects), block by block.  A run     *)
(* that panics ends at "panic".                                            *)
(***************************************************************************)
\* no FruitsPP builder
FruitsIdle ==
    /\ map = None
    /\ attributes = None
    /\ mods = 0
    /\ combo = None
    /\ n_fruits = None
    /\ n_droplets = None
    /\ n_tiny_droplets = None
    /\ n_tiny_droplet_misses = None
    /\ n_misses = 0
    /\ passed_objects = None
    /\ pp_pc = "idle"
    /\ inner = None
    /\ perf = None
    /\ stars_calls = 0
    /\ acc_called = FALSE
    /\ supplied_first = FALSE
    /\ lazy = None
    /\ resupplied = None
    /\ last_acc = None

\* Beatmaps whose approach rate and stack leniency are drawn from Sets
BeatmapsWith(Kinds, Xs, Lens, Versions, Sets) ==
    { [hit_objects |-> h, version |-> v, ar |-> st.ar, od |-> 50, hp |-> 50,
       cs |-> 50, stack_leniency |-> st.stack_leniency] :
        h \in UNION { HitObjectsOf(Kinds, Xs, n) : n \in Lens }, v \in Versions,
        st \in Sets }

\* the default approach rate (5.0) and stack leniency (0.7)
DefaultSettings == [ar |-> 50, stack_leniency |-> 7]

\* Beatmaps with the default settings
Beatmaps(Kinds, Xs, Lens, Versions) ==
    BeatmapsWith(Kinds, Xs, Lens, Versions, {DefaultSettings})

\* no mods, or relax and flashlight
OsuModsValues == {0, 1152}

\* the call stars(map, mods, passed_objects)
StarsInit ==
    /\ osu_map \in Beatmaps({"circle", "slider", "spinner", "hold"}, {0, 10},
                            0..MaxObjects, {5, 6})
    /\ osu_mods \in OsuModsValues
    /\ osu_passed_objects \in OptionOf(0..MaxObjects \cup {LargeTake})
    /\ pc = "start"
    /\ hit_objects = << >>
    /\ params_max_combo = 0
    /\ stack_threshold = 0
    /\ skills = None
    /\ obj_idx = 0
    /\ curr_section_end = 0
    /\ attrs = None
    /\ ratings = None
    /\ osu_attributes = None
    /\ FruitsIdle

\* calculate_skills returns None (take < 2), stars returns the default record
\* with ar, hp and od
StarsDegenerate ==
    /\ pc = "start"
    /\ take_of(osu_map, osu_passed_objects) < 2
    /\ osu_attributes' = Some([DefaultAttributes EXCEPT
                                  !.ar = map_attributes(osu_map, osu_mods).ar,
                                  !.hp = map_attributes(osu_map, osu_mods).hp,
                                  !.od = od_of(osu_map, osu_mods)])
    /\ pc' = "done"
    /\ UNCHANGED << osu_map, osu_mods, osu_passed_objects, hit_objects,
                    params_max_combo, stack_threshold, skills, obj_idx,
                    curr_section_end, attrs, ratings >>
    /\ UNCHANGED pp_vars

\* calculate_skills, to the stack threshold: the first take objects are built,
\* or the room for them is refused
Build ==
    /\ pc = "start"
    /\ take_of(osu_map, osu_passed_objects) >= 2
    /\ \E refused \in {FALSE, with_capacity_may_fail(
                                   take_of(osu_map, osu_passed_objects))} :
       IF refused
       THEN /\ pc' = "panic"
            /\ UNCHANGED << hit_objects, params_max_combo, stack_threshold >>
       ELSE /\ LET raw == take_first(osu_map.hit_objects,
                                     take_of(osu_map, osu_passed_objects))
               IN  /\ hit_objects' = filter_map_new(raw)
                   /\ params_max_combo' = combo_after(raw)
            /\ stack_threshold' = stack_threshold_of(osu_map, osu_mods)
            /\ pc' = "built"
    /\ UNCHANGED << osu_map, osu_mods, osu_passed_objects, skills, obj_idx,
                    curr_section_end, attrs, ratings, osu_attributes >>
    /\ UNCHANGED pp_vars

\* if map.version >= 6 { stacking(..) } else { old_stacking(..) }
Stack ==
    /\ pc = "built"
    /\ IF osu_map.version >= 6
       THEN IF stacking_panics(hit_objects)
            THEN pc' = "panic" /\ UNCHANGED hit_objects
            ELSE pc' = "stacked" /\ hit_objects' = stacking(hit_objects, stack_threshold)
       ELSE pc' = "stacked" /\ hit_objects' = old_stacking(hit_objects, stack_threshold)
    /\ UNCHANGED << osu_map, osu_mods, osu_passed_objects, params_max_combo,
                    stack_threshold, skills, obj_idx, curr_section_end, attrs,
                    ratings, osu_attributes >>
    /\ UNCHANGED pp_vars

\* the stack offsets are added to the positions, the trackers are made
StackOffset ==
    /\ pc = "stacked"
    /\ hit_objects' = apply_stack_offset(hit_objects)
    /\ skills' = Some(Skills_new(osu_mods))
    /\ pc' = "offset"
    /\ UNCHANGED << osu_map, osu_mods, osu_passed_objects, params_max_combo,
                    stack_threshold, obj_idx, curr_section_end, attrs, ratings,
                    osu_attributes >>
    /\ UNCHANGED pp_vars

\* let mut prev = hit_objects.next().unwrap(), and the first section end
First ==
    /\ pc = "offset"
    /\ IF Len(hit_objects) = 0
       THEN pc' = "panic" /\ UNCHANGED << obj_idx, curr_section_end >>
       ELSE /\ pc' = "first"
            /\ obj_idx' = 1
            /\ curr_section_end' =
                   first_section_end(hit_objects[1],
                                     map_attributes(osu_map, osu_mods).clock_rate)
    /\ UNCHANGED << osu_map, osu_mods, osu_passed_objects, hit_objects,
                    params_max_combo, stack_threshold, skills, attrs, ratings,
                    osu_attributes >>
    /\ UNCHANGED pp_vars

\* let curr = hit_objects.next().unwrap(), and the second object is processed
Second ==
    /\ pc = "first"
    /\ IF Len(hit_objects) < 2
       THEN pc' = "panic" /\ UNCHANGED << obj_idx, curr_section_end, skills >>
       ELSE LET r == scan_object(skills[1], hit_objects, obj_idx, curr_section_end,
                                 map_attributes(osu_map, osu_mods).clock_rate)
            IN  /\ pc' = "loop"
                /\ obj_idx' = obj_idx + 1
                /\ skills' = Some(r.skills)
                /\ curr_section_end' = r.curr_section_end
    /\ UNCHANGED << osu_map, osu_mods, osu_passed_objects, hit_objects,
                    params_max_combo, stack_threshold, attrs, ratings,
                    osu_attributes >>
    /\ UNCHANGED pp_vars

\* for curr in hit_objects { .. }: one more object
Rest ==
    /\ pc = "loop"
    /\ obj_idx < Len(hit_objects)
    /\ LET r == scan_object(skills[1], hit_objects, obj_idx, curr_section_end,
                            map_attributes(osu_map, osu_mods).clock_rate)
       IN  /\ obj_idx' = obj_idx + 1
           /\ skills' = Some(r.skills)
           /\ curr_section_end' = r.curr_section_end
    /\ UNCHANGED << osu_map, osu_mods, osu_passed_objects, pc, hit_objects,
                    params_max_combo, stack_threshold, attrs, ratings,
                    osu_attributes >>
    /\ UNCHANGED pp_vars

\* skills.save_current_peak() and the attributes calculate_skills returns
SaveCurrentPeak ==
    /\ pc = "loop"
    /\ obj_idx = Len(hit_objects)
    /\ skills' = Some(save_current_peak(skills[1]))
    /\ attrs' = Some([DefaultAttributes EXCEPT
                         !.ar = map_attributes(osu_map, osu_mods).ar,
                         !.hp = map_attributes(osu_map, osu_mods).hp,
                         !.od = od_of(osu_map, osu_mods),
                         !.n_circles = n_of_kind(osu_map, "circle"),
                         !.n_sliders = n_of_kind(osu_map, "slider"),
                         !.n_spinners = n_of_kind(osu_map, "spinner"),
                         !.max_combo = params_max_combo])
    /\ pc' = "skills"
    /\ UNCHANGED << osu_map, osu_mods, osu_passed_objects, hit_objects,
                    params_max_combo, stack_threshold, obj_idx, curr_section_end,
                    ratings, osu_attributes >>
    /\ UNCHANGED pp_vars

\* the ratio taken without the test of the aim rating
slider_factor_dividing(aim_rating, aim_no_sliders) ==
    << skill_rating(aim_no_sliders), aim_rating >>

\* stars: slider_factor.  The ratio of two ratings held as q1 and q2 is
\* sqrt(q1 / q2), and a slider factor is held as << q1, q2 >>, the ratio it
\* is the root of; 1.0 is << 1, 1 >> and 0.0 is << 0, 1 >>
slider_factor(aim_rating, aim_no_sliders) ==
    IF aim_rating > 0
    THEN << skill_rating(aim_no_sliders), aim_rating >>
    ELSE << 1, 1 >>

\* stars: the ratings and the slider factor
Rate ==
    /\ pc = "skills"
    /\ LET aim_rating == skill_rating(skills[1].aim)
       IN  ratings' = Some(
               [aim_rating        |-> aim_rating,
                slider_factor     |-> slider_factor(aim_rating, skills[1].aim_no_sliders),
                speed_rating      |-> IF skills[1].speed # None
                                      THEN skill_rating(skills[1].speed[1]) ELSE 0,
                flashlight_rating |-> IF skills[1].flashlight # None
                                      THEN skill_rating(skills[1].flashlight[1]) ELSE 0])
    /\ skills' = Some(
           [aim            |-> take_strain_peaks(skills[1].aim),
            aim_no_sliders |-> IF skill_rating(skills[1].aim) > 0
                               THEN take_strain_peaks(skills[1].aim_no_sliders)
                               ELSE skills[1].aim_no_sliders,
            speed          |-> IF skills[1].speed # None
                               THEN Some(take_strain_peaks(skills[1].speed[1]))
                               ELSE None,
            flashlight     |-> IF skills[1].flashlight # None
                               THEN Some(take_strain_peaks(skills[1].flashlight[1]))
                               ELSE None])
    /\ pc' = "rated"
    /\ UNCHANGED << osu_map, osu_mods, osu_passed_objects, hit_objects,
                    params_max_combo, stack_threshold, obj_idx,
                    curr_section_end, attrs, osu_attributes >>
    /\ UNCHANGED pp_vars

\* stars: the star rating, and the attributes are returned
Finish ==
    /\ pc = "rated"
    /\ osu_attributes' = Some([attrs[1] EXCEPT
           !.aim_strain = ratings[1].aim_rating,
           !.speed_strain = ratings[1].speed_rating,
           !.flashlight_rating = ratings[1].flashlight_rating,
           !.slider_factor = ratings[1].slider_factor,
           !.stars = calculate_star_rating(ratings[1].aim_rating,
                                           ratings[1].speed_rating,
                                           ratings[1].flashlight_rating)])
    /\ pc' = "done"
    /\ UNCHANGED << osu_map, osu_mods, osu_passed_objects, hit_objects,
                    params_max_combo, stack_threshold, skills, obj_idx,
                    curr_section_end, attrs, ratings >>
    /\ UNCHANGED pp_vars

StarsNext ==
    \/ StarsDegenerate
    \/ Build
    \/ Stack
    \/ StackOffset
    \/ First
    \/ Second
    \/ Rest
    \/ SaveCurrentPeak
    \/ Rate
    \/ Finish

SpecStars == StarsInit /\ [][StarsNext]_vars


(***************************************************************************)
(* The stacking on its own: calculate_skills at the point where the        *)
(* objects of a map of two or more are built and its stack threshold is    *)
(* computed.                                                               *)
(***************************************************************************)
\* settings with stack thresholds of 0 ms, a little over 150, 300 and 900 ms
\* and a little under 840 ms
StackSettings ==
    { [ar |-> 50, stack_leniency |-> 0], [ar |-> 25, stack_leniency |-> 1],
      [ar |-> 25, stack_leniency |-> 2], [ar |-> 25, stack_leniency |-> 6],
      DefaultSettings }

StackInit ==
    /\ osu_map \in BeatmapsWith({"circle", "slider", "spinner"}, {0, 3, 10},
                                2..MaxObjects, {5, 6}, StackSettings)
    /\ osu_mods = 0
    /\ osu_passed_objects = None
    /\ pc = "built"
    /\ hit_objects = filter_map_new(osu_map.hit_objects)
    /\ params_max_combo = combo_after(osu_map.hit_objects)
    /\ stack_threshold = stack_threshold_of(osu_map, osu_mods)
    /\ skills = None
    /\ obj_idx = 0
    /\ curr_section_end = 0
    /\ attrs = None
    /\ ratings = None
    /\ osu_attributes = None
    /\ FruitsIdle

StackNext ==
    \/ Stack
    \/ StackOffset

SpecStack == StackInit /\ [][StackNext]_vars

(***************************************************************************)
(* The modern stacking on longer maps: a slider gets a stack height of 2   *)
(* from two later objects at its start, which takes five objects with one  *)
(* more under its end.  The maps have the default settings, and with them  *)
(* a stack threshold a little under 840 ms.                                *)
(***************************************************************************)
LongObjects == 5        \* hit objects of a long map

LongStackInit ==
    /\ osu_map \in Beatmaps({"circle", "slider", "spinner"}, {0, 10},
                            2..LongObjects, {6})
    /\ osu_mods = 0
    /\ osu_passed_objects = None
    /\ pc = "built"
    /\ hit_objects = filter_map_new(osu_map.hit_objects)
    /\ params_max_combo = combo_after(osu_map.hit_objects)
    /\ stack_threshold = stack_threshold_of(osu_map, osu_mods)
    /\ skills = None
    /\ obj_idx = 0
    /\ curr_section_end = 0
    /\ attrs = None
    /\ ratings = None
    /\ osu_attributes = None
    /\ FruitsIdle

SpecLongStack == LongStackInit /\ [][StackNext]_vars

(***************************************************************************)
(* The ratings on their own: stars() at the point where the ratings are    *)
(* known, for any ratings; and a FruitsPP builder on a chart of any star   *)
(* rating.                                                                 *)
(***************************************************************************)
MaxRating == 6          \* aim and speed rating, held as q: 0.0675 * sqrt(q)
MaxFlashlight == 2      \* flashlight rating, held as q
MaxStars == 6           \* star rating of a chart, in units of 0.00098

RatingInit ==
    /\ osu_map = None
    /\ osu_mods = 0
    /\ osu_passed_objects = None
    /\ pc = "rated"
    /\ hit_objects = << >>
    /\ params_max_combo = 0
    /\ stack_threshold = 0
    /\ skills = None
    /\ obj_idx = 0
    /\ curr_section_end = 0
    /\ attrs = Some(DefaultAttributes)
    /\ \E a \in 0..MaxRating, s \in 0..MaxRating, f \in 0..MaxFlashlight :
           ratings = Some([aim_rating |-> a,
                           slider_factor |-> IF a > 0 THEN << a, a >> ELSE << 1, 1 >>,
                           speed_rating |-> s,
                           flashlight_rating |-> f])
    /\ osu_attributes = None
    /\ map \in ChartsWith({1}, {0}, {0}, 0..MaxStars, ArValues)
    /\ attributes = None
    /\ mods = 0
    /\ combo = None
    /\ n_fruits = None
    /\ n_droplets = None
    /\ n_tiny_droplets = None
    /\ n_tiny_droplet_misses = None
    /\ n_misses = 0
    /\ passed_objects = None
    /\ NoHistory

RatingNext ==
    \/ Finish
    \/ Calculate

SpecRating == RatingInit /\ [][RatingNext]_vars


(***************************************************************************)
(* Claims on the difficulty calculation.                                   *)
(***************************************************************************)
\* the first K raw objects of the map, K being passed_objects (all without it)
PassedPrefix ==
    SubSeq(osu_map.hit_objects, 1,
           Min(unwrap_or(osu_passed_objects, Len(osu_map.hit_objects)),
               Len(osu_map.hit_objects)))

\* the record stars() returns for degenerate input
DegenerateRecord ==
    [aim_strain |-> 0, speed_strain |-> 0, flashlight_rating |-> 0,
     slider_factor |-> << 0, 1 >>, ar |-> osu_map.ar, od |-> in_od_units(osu_map.od),
     hp |-> osu_map.hp, n_circles |-> 0, n_sliders |-> 0, n_spinners |-> 0,
     stars |-> ZeroStars, max_combo |-> 0]

\* C3: whenever fewer than two of the first K raw objects are built, the run
\* of stars() ends by returning the default record with ar, od and hp, and
\* does not panic.
C3_DegenerateInput ==
    (pc \in {"done", "panic"} /\ Len(filter_map_new(PassedPrefix)) < 2) =>
        (pc = "done" /\ osu_attributes = Some(DegenerateRecord))

\* positions that do not coincide
Apart(a, b) == distance(a, b) >= STACK_DISTANCE

\* no object's start position is within STACK_DISTANCE of another object's
\* start or end position
NoCoincidence(objs) ==
    \A i, j \in 1..Len(objs) :
        i # j => Apart(objs[i].pos, objs[j].pos) /\ Apart(objs[i].pos, objs[j].end_pos)

\* C4: on a sequence without coincidences, stacking() and old_stacking() leave
\* every stack height at 0 for any threshold, and the positions after the
\* stack offsets are the base positions.
C4_StackingMonotonicity ==
    (pc \in {"stacked", "offset"} /\ NoCoincidence(filter_map_new(osu_map.hit_objects))) =>
        /\ \A i \in 1..Len(hit_objects) : hit_objects[i].stack_height = 0
        /\ \A i \in 1..Len(hit_objects) :
               hit_objects[i].pos = osu_map.hit_objects[i].pos

\* both algorithms have run to the offsets on three objects without
\* coincidences, all within the threshold of each other, two of them at the
\* stack distance, one of them a slider
C4_Witness ==
    /\ pc = "offset"
    /\ Len(hit_objects) >= 3
    /\ stack_threshold >= in_threshold_units(900)
    /\ NoCoincidence(filter_map_new(osu_map.hit_objects))
    /\ \E i, j \in 1..Len(hit_objects) :
           i # j /\ distance(hit_objects[i].pos, hit_objects[j].pos) = STACK_DISTANCE
    /\ \E i \in 1..Len(hit_objects) : is_slider(hit_objects[i])

AllRatingsZero ==
    /\ ratings # None
    /\ ratings[1].aim_rating = 0
    /\ ratings[1].speed_rating = 0
    /\ ratings[1].flashlight_rating = 0

\* C5 (as claimed): with all three ratings 0 the star rating is exactly 0.0,
\* and a chart of star rating 0 has a base value of exactly 0.0.
C5_ZeroFloor ==
    /\ (pc = "done" /\ AllRatingsZero) => osu_attributes[1].stars.zero
    /\ (perf # None /\ perf[1].attributes.stars = 0) => perf[1].base = 0

\* C5 (amended): the star rating is never the 0.0 of the else branch; with all
\* three ratings 0 the aim and the speed base performance are both 1e-5, so
\* the star rating is 1.12^(1/3) * 0.027 * 5; and a chart of star rating 0 has
\* a base value of 1e-5.
C5_FloorIsNotZero ==
    /\ pc = "done" => ~osu_attributes[1].stars.zero
    /\ (pc = "done" /\ AllRatingsZero) =>
           osu_attributes[1].stars =
               [zero |-> FALSE, terms |-> << << 8, 0, 0 >>, << 8, 0, 0 >>, << 0, 0, 0 >> >>]
    /\ (perf # None /\ perf[1].attributes.stars = 0) => perf[1].base = 1

\* both have run on zeros
C5_Witness ==
    /\ pc = "done"
    /\ AllRatingsZero
    /\ perf # None
    /\ perf[1].attributes.stars = 0

\* the map cut to the first K raw objects
TruncatedMap == [osu_map EXCEPT !.hit_objects = PassedPrefix]

\* the objects of a map after the stacking, and after the stack offsets
stacked_objects(m, md) ==
    IF m.version >= 6
    THEN stacking(filter_map_new(m.hit_objects), stack_threshold_of(m, md))
    ELSE old_stacking(filter_map_new(m.hit_objects), stack_threshold_of(m, md))

\* the trackers after the scan of objects from index idx on
RECURSIVE scan_from(_, _, _, _, _)
scan_from(sk, objs, idx, section_end, clock_rate) ==
    IF idx >= Len(objs) THEN sk
    ELSE LET r == scan_object(sk, objs, idx, section_end, clock_rate)
         IN  scan_from(r.skills, objs, idx + 1, r.curr_section_end, clock_rate)

\* the trackers calculate_skills returns for a map, all of its objects taken
skills_of(m, md) ==
    LET objs == apply_stack_offset(stacked_objects(m, md))
        cr   == map_attributes(m, md).clock_rate
    IN  save_current_peak(
            scan_from(Skills_new(md), objs, 1, first_section_end(objs[1], cr), cr))

\* a run with passed_objects = K, past the building of the objects
PartialRun ==
    /\ osu_passed_objects # None
    /\ pc \in {"built", "stacked", "offset", "first", "loop", "skills", "rated"}
       \/ (pc = "done" /\ attrs # None)

\* what the claim says of the objects, the stack heights and the strain peaks:
\* they are those of the map cut to its first K objects
C7_NoLaterObject ==
    PartialRun =>
        /\ pc = "built" => hit_objects = filter_map_new(PassedPrefix)
        /\ pc = "stacked" => hit_objects = stacked_objects(TruncatedMap, osu_mods)
        /\ pc \in {"offset", "first", "loop", "skills", "rated", "done"} =>
               hit_objects = apply_stack_offset(stacked_objects(TruncatedMap, osu_mods))
        /\ pc = "skills" => skills[1] = skills_of(TruncatedMap, osu_mods)
        /\ params_max_combo = combo_after(PassedPrefix)

\* C7 (as claimed): with passed_objects = K no object from index K on has a
\* part in the objects built, the stack heights or the strain peaks, and the
\* max_combo stars() reports is the combo of the first K objects.
C7_PartialPlayAnyK ==
    /\ C7_NoLaterObject
    /\ (pc = "done" /\ osu_passed_objects # None) =>
           osu_attributes[1].max_combo = combo_after(PassedPrefix)

\* C7 (amended): the same, the reported max_combo being the combo of the
\* first K objects for K >= 2; for K < 2 nothing is built and the reported
\* max_combo is 0.
C7_PartialPlay ==
    /\ C7_NoLaterObject
    /\ (pc = "done" /\ osu_passed_objects # None /\ osu_passed_objects[1] >= 2) =>
           osu_attributes[1].max_combo = combo_after(PassedPrefix)
    /\ (pc = "done" /\ osu_passed_objects # None /\ osu_passed_objects[1] < 2) =>
           /\ hit_objects = << >>
           /\ osu_attributes[1].max_combo = 0

\* a run has returned for 2 <= K < the number of objects, the objects left
\* out having combo
C7_Witness ==
    /\ pc = "done"
    /\ osu_passed_objects # None
    /\ osu_passed_objects[1] >= 2
    /\ osu_passed_objects[1] < Len(osu_map.hit_objects)
    /\ osu_attributes[1].max_combo < combo_after(osu_map.hit_objects)
    /\ osu_attributes[1].max_combo > 0


\* the stack heights of the built objects
StackHeights(objs) == [i \in 1..Len(objs) |-> objs[i].stack_height]

\* C11: in a run of calculate_skills a stack height is written only while the
\* objects are built and stacked, which is over before the first object is
\* taken from the iterator; the objects are taken one by one in increasing
\* index order; and the step that takes object i leaves the trackers with the
\* feature of object i folded, before object i + 1 is taken.
C11_PipelineOrdering ==
    [][ /\ StackHeights(hit_objects') # StackHeights(hit_objects) =>
               /\ pc \in {"start", "built"}
               /\ pc' \in {"built", "stacked"}
               /\ obj_idx = 0
        /\ obj_idx' # obj_idx =>
               /\ obj_idx' = obj_idx + 1
               /\ pc \in {"offset", "first", "loop"}
               /\ pc' \in {"first", "loop"}
        /\ (pc \in {"first", "loop"} /\ obj_idx' # obj_idx) =>
               skills'[1] =
                   process(
                       section_loop(
                           skills[1],
                           by_clock_rate(hit_objects[obj_idx + 1].time,
                                         map_attributes(osu_map, osu_mods).clock_rate),
                           curr_section_end, obj_idx > 1).skills,
                       DifficultyObject_new(
                           hit_objects[obj_idx + 1], hit_objects[obj_idx],
                           map_attributes(osu_map, osu_mods).clock_rate))
      ]_vars

\* three objects have been taken in a run whose stacking gave a stack height
C11_Witness ==
    /\ pc = "loop"
    /\ obj_idx = 3
    /\ \E i \in 1..Len(hit_objects) : hit_objects[i].stack_height # 0


(***************************************************************************)
(* Runs of stars() on maps whose objects are 300 or 900 ms apart, with the *)
(* clock rates of no mod, double time and half time.                       *)
(***************************************************************************)
\* the start time of the i-th object: the gaps after the objects before it
RECURSIVE start_time_after(_, _)
start_time_after(gaps, i) ==
    IF i <= 1 THEN 0 ELSE gaps[i - 1] + start_time_after(gaps, i - 1)

\* the raw hit objects of a map, each with the gap to the next one
TimedHitObjectsOf(Kinds, Xs, Gaps, n) ==
    { [i \in 1..n |-> [kind |-> f[i][1], pos |-> f[i][2],
                       start_time |-> start_time_after([j \in 1..n |-> f[j][3]], i)]] :
        f \in [1..n -> Kinds \X Xs \X Gaps] }

\* no mod, double time, half time, flashlight
SectionModsValues == {0, 64, 256, 1024}

SectionsInit ==
    /\ \E n \in 0..MaxObjects :
           \E h \in TimedHitObjectsOf({"circle", "slider"}, {0}, {300, 900}, n) :
               osu_map = [hit_objects |-> h, version |-> 6, ar |-> 50, od |-> 50,
                          hp |-> 50, cs |-> 50, stack_leniency |-> 7]
    /\ osu_mods \in SectionModsValues
    /\ osu_passed_objects = None
    /\ pc = "start"
    /\ hit_objects = << >>
    /\ params_max_combo = 0
    /\ stack_threshold = 0
    /\ skills = None
    /\ obj_idx = 0
    /\ curr_section_end = 0
    /\ attrs = None
    /\ ratings = None
    /\ osu_attributes = None
    /\ FruitsIdle

SpecSections == SectionsInit /\ [][StarsNext]_vars

\* the trackers of a run
ActiveTrackers(sk) ==
    {sk.aim, sk.aim_no_sliders}
        \cup {sk.speed[i] : i \in DOMAIN sk.speed}
        \cup {sk.flashlight[i] : i \in DOMAIN sk.flashlight}

\* time / clock_rate of the built object at index i (from 0)
ScaledTime(i) ==
    by_clock_rate(hit_objects[i + 1].time, map_attributes(osu_map, osu_mods).clock_rate)

\* the section end the run starts from: the first multiple of SECTION_LEN at
\* or after the first object
SectionStart ==
    ((ScaledTime(0) + scaled(SECTION_LEN) - 1) \div scaled(SECTION_LEN))
        * scaled(SECTION_LEN)

\* the section boundaries crossed so far, and those crossed up to the second
\* object
BoundariesCrossed == (curr_section_end - SectionStart) \div scaled(SECTION_LEN)

BoundariesToSecond ==
    IF ScaledTime(1) <= SectionStart THEN 0
    ELSE (((ScaledTime(1) + scaled(SECTION_LEN) - 1) \div scaled(SECTION_LEN))
              * scaled(SECTION_LEN) - SectionStart) \div scaled(SECTION_LEN)

\* C12 (as claimed): the trackers hold one peak per section boundary crossed
\* while the objects are scanned, those crossed between the first and the
\* second object included, and one more once the stream has ended.
C12_PeakPerBoundary ==
    /\ pc = "loop" =>
           \A t \in ActiveTrackers(skills[1]) : Len(t.strain_peaks) = BoundariesCrossed
    /\ pc = "skills" =>
           \A t \in ActiveTrackers(skills[1]) :
               Len(t.strain_peaks) = BoundariesCrossed + 1

\* C12 (amended): the trackers hold one peak per section boundary crossed
\* after the second object, empty sections included, and one more once the
\* stream has ended; the boundaries crossed between the first and the second
\* object start a new section and add no peak.
C12_PeakPerLaterBoundary ==
    /\ pc = "loop" =>
           \A t \in ActiveTrackers(skills[1]) :
               Len(t.strain_peaks) = BoundariesCrossed - BoundariesToSecond
    /\ pc = "skills" =>
           \A t \in ActiveTrackers(skills[1]) :
               Len(t.strain_peaks) = BoundariesCrossed - BoundariesToSecond + 1

\* a run under half time has ended after crossing boundaries both before
\* and after the second object, two of them at one object
C12_Witness ==
    /\ pc = "skills"
    /\ ht(osu_mods)
    /\ BoundariesToSecond >= 1
    /\ BoundariesCrossed - BoundariesToSecond >= 2
    /\ \E i \in 2..(Len(hit_objects) - 1) : ScaledTime(i) - ScaledTime(i - 1) > scaled(SECTION_LEN)


\* the objects as lowered under the end of the slider at index n, for a walk
\* that started from the circle at index i: those from n + 1 to i whose
\* position is within STACK_DISTANCE of the slider's end
LoweredUnder(objs, n, i, offset) ==
    [k \in 1..Len(objs) |->
        IF /\ k - 1 > n
           /\ k - 1 <= i
           /\ distance(objs[n + 1].end_pos, objs[k].pos) < STACK_DISTANCE
        THEN [objs[k] EXCEPT !.stack_height = objs[k].stack_height - offset]
        ELSE objs[k]]

\* a slider followed by circles at its end position only, each within the
\* threshold of the object before it
SliderThenCircles(objs, thr) ==
    /\ Len(objs) >= 2
    /\ objs[1].kind = "slider"
    /\ \A k \in 2..Len(objs) :
           /\ objs[k].kind = "circle"
           /\ distance(objs[1].end_pos, objs[k].pos) < STACK_DISTANCE
           /\ in_threshold_units(objs[k].time - objs[k - 1].time) <= thr

\* C13: in stacking(), when the walk back from the circle at index i comes to
\* a slider whose end is within STACK_DISTANCE of the chain base, the objects
\* after the slider up to i that lie within STACK_DISTANCE of the slider's end
\* all go down by base height - slider height + 1 and the walk ends there;
\* and a slider followed by k circles at its end, within the threshold, ends
\* with the circles at -1, -2, .., -k and the slider at 0.
C13_SliderEndInversion ==
    /\ pc \in {"built", "stacked"} =>
           \A i \in 1..(Len(hit_objects) - 1) : \A n \in 0..(i - 1) :
               (/\ hit_objects[i + 1].kind = "circle"
                /\ hit_objects[n + 1].kind = "slider"
                /\ in_threshold_units(hit_objects[i + 1].time
                                          - hit_objects[n + 1].end_time)
                       <= stack_threshold
                /\ distance(hit_objects[n + 1].end_pos, hit_objects[i + 1].pos)
                       < STACK_DISTANCE) =>
                   circle_walk(hit_objects, 0, i, i, n + 1, stack_threshold).objs =
                       LoweredUnder(hit_objects, n, i,
                                    hit_objects[i + 1].stack_height
                                        - hit_objects[n + 1].stack_height + 1)
    /\ (/\ pc = "stacked"
        /\ osu_map.version >= 6
        /\ SliderThenCircles(filter_map_new(osu_map.hit_objects), stack_threshold)) =>
           StackHeights(hit_objects) = [k \in 1..Len(hit_objects) |-> 1 - k]

\* stacking() has run on a slider followed by two or more circles at its end
C13_Witness ==
    /\ pc = "stacked"
    /\ osu_map.version >= 6
    /\ Len(hit_objects) >= 3
    /\ SliderThenCircles(filter_map_new(osu_map.hit_objects), stack_threshold)
    /\ hit_objects[3].stack_height = -2


\* circles at one position, each within the threshold of the one before it
CirclesInPlace(objs, thr) ==
    /\ Len(objs) >= 2
    /\ \A k \in 1..Len(objs) : objs[k].kind = "circle"
    /\ \A k \in 2..Len(objs) :
           /\ distance(objs[k].pos, objs[1].pos) = 0
           /\ in_threshold_units(objs[k].time - objs[k - 1].end_time) <= thr

\* a slider, a slider that starts at the end of the first, and a circle at
\* that place, each within the threshold of the one before it
SliderUnderSlider(objs, thr) ==
    /\ Len(objs) = 3
    /\ objs[1].kind = "slider"
    /\ objs[2].kind = "slider"
    /\ objs[3].kind = "circle"
    /\ distance(objs[2].pos, objs[1].end_pos) = 0
    /\ distance(objs[3].pos, objs[2].pos) = 0
    /\ \A k \in 2..3 : in_threshold_units(objs[k].time - objs[k - 1].end_time) <= thr

\* no object starts within the threshold of the end of the one before it
OutOfRange(objs, thr) ==
    \A k \in 2..Len(objs) : \A j \in 1..(k - 1) :
        in_threshold_units(objs[k].time - objs[j].end_time) > thr

\* C14: old_stacking() on the scenes that tell its rules apart.  Circles in
\* one place: every circle is an anchor and gains 1 per later circle, the
\* window moving on with the circle stacked last.  A slider and circles at
\* its end: the m-th circle goes down by m and, its height not being 0, is
\* no anchor.  A slider whose height is not 0 is still an anchor.  Objects
\* out of the window of every earlier object keep height 0.
C14_LegacyStacking ==
    (pc = "stacked" /\ osu_map.version < 6) =>
        LET base == filter_map_new(osu_map.hit_objects) IN
        /\ CirclesInPlace(base, stack_threshold) =>
               StackHeights(hit_objects)
                   = [k \in 1..Len(hit_objects) |-> Len(hit_objects) - k]
        /\ SliderThenCircles(base, stack_threshold) =>
               StackHeights(hit_objects) = [k \in 1..Len(hit_objects) |-> 1 - k]
        /\ SliderUnderSlider(base, stack_threshold) =>
               StackHeights(hit_objects) = << 0, 0, -2 >>
        /\ OutOfRange(base, stack_threshold) =>
               StackHeights(hit_objects) = [k \in 1..Len(hit_objects) |-> 0]

\* old_stacking() has run on a slider, a slider at its end and a circle there
C14_Witness ==
    /\ pc = "stacked"
    /\ osu_map.version < 6
    /\ SliderUnderSlider(filter_map_new(osu_map.hit_objects), stack_threshold)
    /\ StackHeights(hit_objects) = << 0, 0, -2 >>


\* the record returned comes from the None arm of stars(): no rating was taken
ReturnedDegenerate == osu_attributes # None /\ ratings = None

\* the record returned comes from the ratings of the skills
ReturnedRated == osu_attributes # None /\ ratings # None

\* C15 as stated: every record returned with an aim rating of 0 has a slider
\* factor of exactly 1.0, the record for degenerate input included.
C15_SliderFactorOne ==
    (osu_attributes # None /\ osu_attributes[1].aim_strain = 0) =>
        osu_attributes[1].slider_factor = << 1, 1 >>

\* C15: a record computed from the skills with an aim rating of 0 has a slider
\* factor of exactly 1.0; the record returned for degenerate input has an aim
\* rating of 0 and the default slider factor, 0.0.
C15_SliderFactor ==
    /\ (ReturnedRated /\ osu_attributes[1].aim_strain = 0) =>
           osu_attributes[1].slider_factor = << 1, 1 >>
    /\ ReturnedDegenerate =>
           /\ osu_attributes[1].aim_strain = 0
           /\ osu_attributes[1].slider_factor = << 0, 1 >>

\* stars() has rated the skills of a map and found an aim rating of 0
C15_Witness ==
    /\ pc = "done"
    /\ ReturnedRated
    /\ Len(hit_objects) >= 2
    /\ osu_attributes[1].aim_strain = 0
    /\ osu_attributes[1].slider_factor = << 1, 1 >>


\* b (in units of 1e-5) is ((5 * max(stars / 0.0675, 1) - 4)^3) / 100000 for
\* stars in units of 0.00098: 5 * stars / 0.0675 is 49 * stars / 675, and a
\* whole number b is the cube of x / 675 only when x / 675 is a whole number
IsCubicBase(b, stars) ==
    \E r \in 0..b :
        /\ r * r * r = b
        /\ 675 * r = Max(49 * stars, 3375) - 2700

\* C16 as stated: the base value of calculate() is the cubic formula of the
\* star-rating aggregator, ((5 * max(stars / 0.0675, 1) - 4)^3) / 100000.
C16_CubicBase ==
    perf # None => IsCubicBase(perf[1].base, perf[1].attributes.stars)

\* C16: the base value of calculate() is the square
\* ((5 * max(stars / 0.0049, 1) - 4)^2) / 100000 of the clamped star rating,
\* with the divisor 0.0049.
C16_SquareBase ==
    perf # None =>
        LET stars == perf[1].attributes.stars
            b     == IF stars > 5 THEN stars - 4 ELSE 1
        IN  perf[1].base = b * b

\* calculate() has run on a chart whose star rating is above the clamp
C16_Witness ==
    /\ perf # None
    /\ perf[1].attributes.stars > 5
    /\ perf[1].base > 1


\* object k comes after a slider that ends within STACK_DISTANCE of its
\* position, and before a circle
AfterSliderEnd(objs, k) ==
    /\ \E n \in 1..(k - 1) :
           /\ objs[n].kind = "slider"
           /\ distance(objs[n].end_pos, objs[k].pos) < STACK_DISTANCE
    /\ \E i \in (k + 1)..Len(objs) : objs[i].kind = "circle"

\* a slider, a spinner at its end and a circle there, the circle within the
\* threshold of the slider's end time
SliderSpinnerCircle(objs, thr) ==
    /\ Len(objs) = 3
    /\ objs[1].kind = "slider"
    /\ objs[2].kind = "spinner"
    /\ objs[3].kind = "circle"
    /\ distance(objs[2].pos, objs[1].end_pos) = 0
    /\ distance(objs[3].pos, objs[1].end_pos) = 0
    /\ in_threshold_units(objs[3].time - objs[1].end_time) <= thr

\* a slider, a spinner at its end, a circle at its end and two circles at its
\* start, the start and the end STACK_DISTANCE or more apart and every walk
\* within the threshold
SliderSpinnerThreeCircles(objs, thr) ==
    /\ Len(objs) = 5
    /\ objs[1].kind = "slider"
    /\ objs[2].kind = "spinner"
    /\ \A k \in 3..5 : objs[k].kind = "circle"
    /\ distance(objs[1].pos, objs[1].end_pos) >= STACK_DISTANCE
    /\ distance(objs[2].pos, objs[1].end_pos) = 0
    /\ distance(objs[3].pos, objs[1].end_pos) = 0
    /\ distance(objs[4].pos, objs[1].pos) = 0
    /\ distance(objs[5].pos, objs[1].pos) = 0
    /\ in_threshold_units(objs[5].time - objs[4].end_time) <= thr
    /\ in_threshold_units(objs[4].time - objs[3].end_time) <= thr
    /\ in_threshold_units(objs[4].time - objs[1].end_time) <= thr
    /\ in_threshold_units(objs[3].time - objs[1].end_time) <= thr

\* C17 as stated: after stacking() every spinner has stack height 0.
C17_SpinnerHeightZero ==
    (pc = "stacked" /\ osu_map.version >= 6) =>
        \A k \in 1..Len(hit_objects) :
            hit_objects[k].kind = "spinner" => hit_objects[k].stack_height = 0

\* C17: stacking() takes no spinner for a chain base and passes over the
\* spinners in both backward walks, so a spinner keeps stack height 0 unless
\* an earlier slider ends within STACK_DISTANCE of it and a circle follows
\* it.  The slider-end offset loop tests no kind: it takes the offset from a
\* spinner under the slider's end as from any object.  A spinner between a
\* slider and a circle at the slider's end ends at -1 (offset 1); with two
\* more circles at the slider's start the slider stands at 2, the offset is
\* -1 and the spinner ends at 1.
C17_SpinnerOnlyOffset ==
    (pc = "stacked" /\ osu_map.version >= 6) =>
        /\ \A k \in 1..Len(hit_objects) :
               (hit_objects[k].kind = "spinner" /\ hit_objects[k].stack_height # 0) =>
                   AfterSliderEnd(filter_map_new(osu_map.hit_objects), k)
        /\ SliderSpinnerCircle(filter_map_new(osu_map.hit_objects), stack_threshold) =>
               StackHeights(hit_objects) = << 0, -1, -1 >>
        /\ SliderSpinnerThreeCircles(filter_map_new(osu_map.hit_objects),
                                     stack_threshold) =>
               StackHeights(hit_objects) = << 2, 1, 1, 1, 0 >>

\* stacking() has returned with a spinner that the offset loop raised and, on
\* another map, would have lowered: here the five objects of the second scene
C17_Witness ==
    /\ pc = "stacked"
    /\ osu_map.version >= 6
    /\ SliderSpinnerThreeCircles(filter_map_new(osu_map.hit_objects), stack_threshold)
    /\ hit_objects[2].kind = "spinner"
    /\ hit_objects[2].stack_height > 0


(***************************************************************************)
(* Repeated calls on the builder.                                          *)
(***************************************************************************)
\* the four judgement counts of the builder
JudgementCounts == << n_fruits, n_droplets, n_tiny_droplets, n_tiny_droplet_misses >>

\* the counts accuracy(a) reconstructs on a builder that holds none
Reconstructed(at, misses, a) == accuracy(at, None, None, None, misses, a)

\* C18: the first accuracy() call wins.  An accuracy() call that follows an
\* accuracy() call with no setter in between leaves the four judgement counts
\* as they were, whatever its accuracy; after any accuracy() the four counts
\* are held; and a misses() call made after accuracy() leaves the fruits,
\* droplets and tiny droplets as they were.
C18_FirstAccuracyWins ==
    [][ /\ (pp_pc = "build" /\ pp_pc' = "build" /\ last_acc # None /\ last_acc' # None)
            => UNCHANGED JudgementCounts
        /\ acc_called' =>
              \A k \in 1..4 : JudgementCounts'[k] # None
        /\ (acc_called /\ n_misses' # n_misses)
            => UNCHANGED << n_fruits, n_droplets, n_tiny_droplets >>
      ]_vars

\* a second accuracy(a2) has run right after an accuracy(a1) that had
\* reconstructed the counts: the counts held are those of a1, and a2 on a
\* fresh builder would have given other tiny droplets
C18_Witness ==
    /\ pp_pc = "build"
    /\ last_acc # None
    /\ \A k \in 1..4 : JudgementCounts[k] # None
    /\ last_acc[1].n_fruits = n_fruits
    /\ last_acc[1].n_droplets = n_droplets
    /\ last_acc[1].n_tiny_droplets = n_tiny_droplets
    /\ last_acc[1].n_tiny_droplet_misses = n_tiny_droplet_misses
    /\ \E a1 \in AccValues :
           /\ a1 # last_acc[1].acc
           /\ Reconstructed(attributes[1], n_misses, a1).n_fruits = n_fruits[1]
           /\ Reconstructed(attributes[1], n_misses, a1).n_droplets = n_droplets[1]
           /\ Reconstructed(attributes[1], n_misses, a1).n_tiny_droplets = n_tiny_droplets[1]
    /\ Reconstructed(attributes[1], n_misses, last_acc[1].acc).n_tiny_droplets
           # n_tiny_droplets[1]

====
